---- MODULE Spec2Model ----
(***************************************************************************)
(* Verification model of the ai-companion repository.                      *)
(*                                                                         *)
(*  SpecIngest : the relational ingestion pipeline                         *)
(*               (backend/src/api/documents.py, ingestion/tasks.py,        *)
(*               storage/models.py)                                        *)
(*  SpecSimple : the document collection of simple-backend.py              *)
(*  SpecFusion : HybridSearchEngine._reciprocal_rank_fusion on its own     *)
(*  SpecSearch : HybridSearchEngine.search against a chunk store           *)
(*  SpecTemporal : the resolvers of temporal expressions                   *)
(*               (simple-backend.py, retrieval/hybrid_search.py)           *)
(*  SpecLexical : search_documents of simple-backend.py                    *)
(*  SpecEmbed  : EmbeddingGenerator (ingestion/embedder.py)                *)
(*  SpecChunk  : IntelligentChunker.chunk_content (ingestion/chunker.py)   *)
(*  SpecRepeat : HybridSearchEngine.search called twice                    *)
(*  SpecQuery  : submit_query of api/query.py and table conversations      *)
(***************************************************************************)
EXTENDS Integers, Sequences, FiniteSets, TLC

VARIABLES
    \* ---- ingestion pipeline (relational store, Celery queue, workers)
    docIds,      \* ids of the rows of table documents
    status,      \* Document.processing_status, per id
    stype,       \* Document.source_type, per id
    metaErr,     \* TRUE iff Document.metadata has the key "error", per id
    chunks,      \* rows of table chunks: [document_id, chunk_index, run]
    queue,       \* undelivered process_document_task messages, per document id
    deliveries,  \* how many messages were put on the queue so far
    nextId,      \* next fresh uuid (uuid4 never repeats)
    pc,          \* per worker: position inside process_document_task
    wdoc,        \* per worker: the document_id argument of the running task
    runs,        \* number of task executions started so far
    deleted,     \* ids for which delete_document returned 204
    \* ---- simple-backend document collection
    coll,        \* documents_collection: sequence of "id" fields
    upc,         \* per upload request: position inside upload_document
    ucount,      \* per upload request: the doc_count it read
    \* ---- hybrid search
    req,         \* arguments of the last search call
    semantic_results, \* list returned by _semantic_search
    keyword_results,  \* list returned by _keyword_search
    fused_results,    \* list returned by search
    sout,        \* "none" | "ok" | "raised": how the search call ended
    faults,      \* what went wrong in the backends during the search call
    improved,    \* fusion only: the chunk whose rank was improved, and its
                 \* fused score before the improvement
    \* ---- functions checked on their own (a call and what it returned)
    fn,          \* name of the function last called, "none" before any call
    args,        \* the arguments of that call
    ret,         \* what the call returned
    \* ---- conversation store of the relational backend
    conversations \* rows of table conversations: [id, query]

ingestVars == <<docIds, status, stype, metaErr, chunks, queue, deliveries,
                nextId, pc, wdoc, runs, deleted>>
simpleVars == <<coll, upc, ucount>>
searchVars == <<req, semantic_results, keyword_results, fused_results, sout,
                faults, improved>>
callVars == <<fn, args, ret>>
queryVars == <<conversations>>
vars == <<ingestVars, simpleVars, searchVars, callVars, queryVars>>

(***************************************************************************)
(* Bounds of the model                                                     *)
(***************************************************************************)
MaxDocs == 2        \* documents ever created in one behaviour
NWorkers == 2       \* concurrent Celery workers
MaxDeliveries == 2  \* task messages ever put on the queue
MaxChunks == 2      \* passages the chunker returns for one document

NChunks == 3        \* chunks in the store that search reads
MaxLimit == 2       \* largest limit argument of a search call
NUploads == 2       \* concurrent upload requests of simple-backend
MaxColl == 3        \* documents the simple-backend collection can hold

DocIds == 1..MaxDocs
Workers == 1..NWorkers
Uploads == 1..NUploads
ChunkIds == 1..NChunks
Limits == 0..MaxLimit

(***************************************************************************)
(* storage/models.py, api/schemas.py                                       *)
(***************************************************************************)
SourceType == {"audio", "pdf", "web", "text", "image"}
ProcessingStatus == {"pending", "processing", "completed", "failed"}

\* upload_document's source_type_mapping: the types an upload can produce
UploadTypes == {"pdf", "text", "audio", "image"}

\* process_document_task's processors dict: the types that have a processor
processors == {"audio", "pdf", "text", "image"}

\* Document.chunks cascade="all, delete-orphan" and
\* Chunk.document_id ForeignKey(ondelete="CASCADE"): rows left after the
\* document row d is deleted.
CascadeNone(d) == chunks
CascadeDelete(d) == {c \in chunks : c.document_id # d}

\* Chunk.document_id is a non-null foreign key: a flush that inserts chunks
\* of, or updates, document d succeeds only while the row d exists.
RowExists(d) == d \in docIds

(***************************************************************************)
(* Initial state of the ingestion pipeline: an empty store, or a store     *)
(* that holds one pending document of source type "web" (the SourceType    *)
(* no upload produces) whose task is queued.                               *)
(***************************************************************************)
InitIngest ==
    /\ \E t \in (SourceType \ UploadTypes) \cup {"none"} :
         /\ docIds = IF t = "none" THEN {} ELSE {1}
         /\ stype = [d \in DocIds |-> IF d = 1 /\ t # "none" THEN t ELSE "text"]
         /\ queue = [d \in DocIds |-> IF d = 1 /\ t # "none" THEN 1 ELSE 0]
         /\ deliveries = IF t = "none" THEN 0 ELSE 1
         /\ nextId = IF t = "none" THEN 1 ELSE 2
    /\ status = [d \in DocIds |-> "pending"]
    /\ metaErr = [d \in DocIds |-> FALSE]
    /\ chunks = {}
    /\ pc = [w \in Workers |-> "idle"]
    /\ wdoc = [w \in Workers |-> 0]
    /\ runs = 0
    /\ deleted = {}

(***************************************************************************)
(* api/documents.py upload_document: a new row with a fresh uuid, status   *)
(* pending, metadata unset; then the task is queued.                       *)
(***************************************************************************)
upload_document(t) ==
    /\ nextId <= MaxDocs
    /\ deliveries < MaxDeliveries
    /\ docIds' = docIds \cup {nextId}
    /\ stype' = [stype EXCEPT ![nextId] = t]
    /\ status' = [status EXCEPT ![nextId] = "pending"]
    /\ metaErr' = [metaErr EXCEPT ![nextId] = FALSE]
    /\ queue' = [queue EXCEPT ![nextId] = @ + 1]
    /\ deliveries' = deliveries + 1
    /\ nextId' = nextId + 1
    /\ UNCHANGED <<queryVars, simpleVars, searchVars, callVars,
                   chunks, pc, wdoc, runs, deleted>>

(***************************************************************************)
(* api/documents.py delete_document: 404 if the row is absent, otherwise   *)
(* the row and (by cascade) its chunks are deleted and committed.          *)
(***************************************************************************)
delete_document(d) ==
    /\ d \in docIds
    /\ docIds' = docIds \ {d}
    /\ chunks' = CascadeDelete(d)
    /\ deleted' = deleted \cup {d}
    /\ UNCHANGED <<queryVars, simpleVars, searchVars, callVars,
                   status, stype, metaErr, queue, deliveries, nextId, pc,
                   wdoc, runs>>

(***************************************************************************)
(* The broker hands a message to a worker a second time (Celery delivers   *)
(* at least once): the message of a document is put on the queue again.    *)
(***************************************************************************)
Redeliver(d) ==
    /\ d < nextId
    /\ deliveries < MaxDeliveries
    /\ queue' = [queue EXCEPT ![d] = @ + 1]
    /\ deliveries' = deliveries + 1
    /\ UNCHANGED <<queryVars, simpleVars, searchVars, callVars,
                   docIds, status, stype, metaErr, chunks, nextId, pc, wdoc,
                   runs, deleted>>

(***************************************************************************)
(* ingestion/tasks.py process_document_task.  The steps are the task's     *)
(* transactions: everything between two commits is local to its session    *)
(* (autoflush=False).  ok = FALSE is a commit that raises.                 *)
(***************************************************************************)
\* lines 36-43: load the document; absent: return; else commit "processing"
TaskBegin(w, d, ok) ==
    /\ pc[w] = "idle"
    /\ queue[d] > 0
    /\ queue' = [queue EXCEPT ![d] = @ - 1]
    /\ runs' = runs + 1
    /\ IF ~RowExists(d)
         THEN UNCHANGED <<pc, wdoc, status>>
         ELSE /\ wdoc' = [wdoc EXCEPT ![w] = d]
              /\ IF ok
                   THEN /\ status' = [status EXCEPT ![d] = "processing"]
                        /\ pc' = [pc EXCEPT ![w] = "started"]
                   ELSE /\ pc' = [pc EXCEPT ![w] = "handler"]
                        /\ UNCHANGED status
    /\ UNCHANGED <<queryVars, simpleVars, searchVars, callVars,
                   docIds, stype, metaErr, chunks, deliveries, nextId, deleted>>

\* lines 57-61: no processor for the source type: status failed, commit
TaskNoProcessor(w, ok) ==
    LET d == wdoc[w] IN
    /\ pc[w] = "started"
    /\ RowExists(d)
    /\ stype[d] \notin processors
    /\ IF ok
         THEN /\ status' = [status EXCEPT ![d] = "failed"]
              /\ wdoc' = [wdoc EXCEPT ![w] = 0]
              /\ pc' = [pc EXCEPT ![w] = "idle"]
         ELSE /\ pc' = [pc EXCEPT ![w] = "handler"]
              /\ UNCHANGED wdoc
              /\ UNCHANGED status
    /\ UNCHANGED <<queryVars, simpleVars, searchVars, callVars,
                   docIds, stype, metaErr, chunks, queue, deliveries, nextId,
                   runs, deleted>>

\* lines 64-70: processor.process raises: status failed, metadata error, commit
TaskExtractFails(w, ok) ==
    LET d == wdoc[w] IN
    /\ pc[w] = "started"
    /\ RowExists(d)
    /\ stype[d] \in processors
    /\ IF ok
         THEN /\ status' = [status EXCEPT ![d] = "failed"]
              /\ metaErr' = [metaErr EXCEPT ![d] = TRUE]
              /\ wdoc' = [wdoc EXCEPT ![w] = 0]
              /\ pc' = [pc EXCEPT ![w] = "idle"]
         ELSE /\ pc' = [pc EXCEPT ![w] = "handler"]
              /\ UNCHANGED wdoc
              /\ UNCHANGED <<status, metaErr>>
    /\ UNCHANGED <<queryVars, simpleVars, searchVars, callVars,
                   docIds, stype, chunks, queue, deliveries, nextId,
                   runs, deleted>>

\* Chunk.id is a fresh uuid4 per row, so the rows of one execution are never
\* those of another: an execution is named by its ordinal among the
\* executions whose chunks of the document are stored
NextRun(d) == Cardinality({c.run : c \in {x \in chunks : x.document_id = d}}) + 1

\* lines 85-96: the chunks of one run, chunk_index = position in chunks_data
NewChunks(d, n, r) ==
    {[document_id |-> d, chunk_index |-> i, run |-> r] : i \in 0..(n - 1)}

\* lines 72-102: metadata replaced, n chunks added, status completed, one commit
TaskComplete(w, n, ok) ==
    LET d == wdoc[w] IN
    /\ pc[w] = "started"
    /\ RowExists(d)
    /\ stype[d] \in processors
    /\ IF ok
         THEN /\ status' = [status EXCEPT ![d] = "completed"]
              /\ metaErr' = [metaErr EXCEPT ![d] = FALSE]
              /\ chunks' = chunks \cup NewChunks(d, n, NextRun(d))
              /\ wdoc' = [wdoc EXCEPT ![w] = 0]
              /\ pc' = [pc EXCEPT ![w] = "idle"]
         ELSE /\ pc' = [pc EXCEPT ![w] = "handler"]
              /\ UNCHANGED wdoc
              /\ UNCHANGED <<status, metaErr, chunks>>
    /\ UNCHANGED <<queryVars, simpleVars, searchVars, callVars,
                   docIds, stype, queue, deliveries, nextId, runs,
                   deleted>>

\* lines 57-100 raise: the row vanished (expired attribute reload, stale
\* UPDATE, foreign key) or the chunker or the content lookup raised
TaskRaises(w) ==
    /\ pc[w] = "started"
    /\ pc' = [pc EXCEPT ![w] = "handler"]
    /\ UNCHANGED <<queryVars, simpleVars, searchVars, callVars,
                   docIds, status, stype, metaErr, chunks, queue, deliveries,
                   nextId, wdoc, runs, deleted>>

\* lines 104-112: reload the document; if present: failed, metadata error,
\* commit (a commit that raises here leaves the task with the exception)
TaskHandler(w, ok) ==
    LET d == wdoc[w] IN
    /\ pc[w] = "handler"
    /\ pc' = [pc EXCEPT ![w] = "idle"]
    /\ wdoc' = [wdoc EXCEPT ![w] = 0]
    /\ IF RowExists(d) /\ ok
         THEN /\ status' = [status EXCEPT ![d] = "failed"]
              /\ metaErr' = [metaErr EXCEPT ![d] = TRUE]
         ELSE UNCHANGED <<status, metaErr>>
    /\ UNCHANGED <<queryVars, simpleVars, searchVars, callVars,
                   docIds, stype, chunks, queue,
                   deliveries, nextId, runs, deleted>>

process_document_task(w) ==
    \/ \E d \in DocIds, ok \in BOOLEAN : TaskBegin(w, d, ok)
    \/ \E ok \in BOOLEAN : TaskNoProcessor(w, ok)
    \/ \E ok \in BOOLEAN : TaskExtractFails(w, ok)
    \/ \E n \in 0..MaxChunks, ok \in BOOLEAN : TaskComplete(w, n, ok)
    \/ TaskRaises(w)
    \/ \E ok \in BOOLEAN : TaskHandler(w, ok)

(***************************************************************************)
(* Idle values of the parts a specification does not exercise              *)
(***************************************************************************)
IdleIngest ==
    /\ docIds = {}
    /\ status = [d \in DocIds |-> "pending"]
    /\ stype = [d \in DocIds |-> "text"]
    /\ metaErr = [d \in DocIds |-> FALSE]
    /\ chunks = {}
    /\ queue = [d \in DocIds |-> 0]
    /\ deliveries = 0
    /\ nextId = 1
    /\ pc = [w \in Workers |-> "idle"]
    /\ wdoc = [w \in Workers |-> 0]
    /\ runs = 0
    /\ deleted = {}

IdleSimple ==
    /\ coll = <<>>
    /\ upc = [u \in Uploads |-> "idle"]
    /\ ucount = [u \in Uploads |-> 0]

IdleSearch ==
    /\ req = <<>>
    /\ semantic_results = <<>>
    /\ keyword_results = <<>>
    /\ fused_results = <<>>
    /\ sout = "none"
    /\ faults = "none"
    /\ improved = <<>>

IdleCalls ==
    /\ fn = "none"
    /\ args = <<>>
    /\ ret = <<>>

IdleQuery == conversations = {}

(***************************************************************************)
(* SpecIngest: uploads, deletes, task deliveries and task executions       *)
(***************************************************************************)
NextIngest ==
    \/ \E t \in UploadTypes : upload_document(t)
    \/ \E d \in DocIds : delete_document(d)
    \/ \E d \in DocIds : Redeliver(d)
    \/ \E w \in Workers : process_document_task(w)

InitSpecIngest == IdleQuery /\ IdleSimple /\ IdleSearch /\ IdleCalls /\ InitIngest

SpecIngest == InitSpecIngest /\ [][NextIngest]_vars

(***************************************************************************)
(* Claims about the ingestion pipeline                                     *)
(***************************************************************************)
AllowedTransitions ==
    {<<"pending", "processing">>, <<"processing", "completed">>,
     <<"processing", "failed">>}

\* C1: in every step, the processing_status of every stored document either
\* stays as it is or moves along pending->processing, processing->completed
\* or processing->failed; in particular nothing leaves failed.
C1_StatusTransitions ==
    [][\A d \in DocIds :
         (d \in docIds /\ d \in docIds')
            => \/ status'[d] = status[d]
               \/ <<status[d], status'[d]>> \in AllowedTransitions]_vars

\* C2: every stored document whose processing_status is failed has an error
\* message in its metadata.
C2_FailedCarriesError ==
    \A d \in docIds : status[d] = "failed" => metaErr[d]

\* C3: once delete_document has succeeded for a document, no chunk row
\* carries that document_id, in this state and in every later one.
C3_NoChunksAfterDelete ==
    \A d \in deleted : \A c \in chunks : c.document_id # d

\* C3 witness: a document was deleted while a task execution for it was in
\* flight; the task's commit raised and the task is in its exception handler.
C3_Witness ==
    \E w \in Workers : pc[w] = "handler" /\ wdoc[w] \in deleted /\ runs >= 2

\* C20: the chunks stored for one document carry chunk_index 0, 1, ..., n-1:
\* no index is stored twice for the document and none is missing.
C20_ChunkIndexSequence ==
    \A d \in DocIds :
        LET rows == {c \in chunks : c.document_id = d} IN
        /\ \A a, b \in rows : a.chunk_index = b.chunk_index => a = b
        /\ {c.chunk_index : c \in rows} = 0..(Cardinality(rows) - 1)

\* C25: a task execution that found its document leaves it, when it returns
\* and the document is still stored, with status completed or failed.
C25_TaskEndsTerminal ==
    [][\A w \in Workers :
         (pc[w] # "idle" /\ pc'[w] = "idle" /\ wdoc[w] \in docIds')
            => status'[wdoc[w]] \in {"completed", "failed"}]_vars

\* C26: no two stored chunks share (document_id, chunk_index), and the
\* chunks of a completed document all come from one execution of the task.
C26_NoDuplicateChunks ==
    /\ \A a, b \in chunks :
         (a.document_id = b.document_id /\ a.chunk_index = b.chunk_index) => a = b
    /\ \A d \in docIds :
         status[d] = "completed"
            => Cardinality({c.run : c \in {x \in chunks : x.document_id = d}}) <= 1

\* C27: a stored document whose status is pending, processing or failed has
\* no chunk in the store (so that search, which reads every stored chunk,
\* returns none of its chunks).
C27_ChunksOnlyWhenCompleted ==
    \A d \in docIds :
        status[d] # "completed" => {c \in chunks : c.document_id = d} = {}

(***************************************************************************)
(* simple-backend.py: the MongoDB collection of documents.  The collection *)
(* is the sequence of the "id" fields of its documents in insertion order; *)
(* the id str(n) is modelled by the number n.  No unique index on "id" is  *)
(* created by connect_to_mongo.                                            *)
(***************************************************************************)
\* initialize_sample_data: an empty collection receives the sample document
sample_docs == <<1>>

InitSimple ==
    /\ coll = sample_docs
    /\ upc = [u \in Uploads |-> "idle"]
    /\ ucount = [u \in Uploads |-> 0]

\* count_documents({})
count_documents == Len(coll)

\* upload_document, up to "doc_count = await count_documents({})"
UploadCount(u) ==
    /\ upc[u] = "idle"
    /\ upc' = [upc EXCEPT ![u] = "counted"]
    /\ ucount' = [ucount EXCEPT ![u] = count_documents]
    /\ UNCHANGED <<queryVars, ingestVars, searchVars, callVars, coll>>

\* upload_document, from "doc_id = str(doc_count + 1)" through insert_one;
\* ok = FALSE is an insert that raises (the request answers 500)
UploadInsert(u, ok) ==
    /\ upc[u] = "counted"
    /\ Len(coll) < MaxColl
    /\ coll' = IF ok THEN Append(coll, ucount[u] + 1) ELSE coll
    /\ upc' = [upc EXCEPT ![u] = "idle"]
    /\ ucount' = [ucount EXCEPT ![u] = 0]
    /\ UNCHANGED <<queryVars, ingestVars, searchVars, callVars>>

\* delete_one({"id": id}): the first document with that id is removed
RemoveFirst(seq, id) ==
    LET i == CHOOSE k \in 1..Len(seq) :
                 seq[k] = id /\ \A j \in 1..(k - 1) : seq[j] # id
    IN  SubSeq(seq, 1, i - 1) \o SubSeq(seq, i + 1, Len(seq))

\* delete_document of simple-backend: 404 unless find_one finds the id
simple_delete_document(id) ==
    /\ \E k \in 1..Len(coll) : coll[k] = id
    /\ coll' = RemoveFirst(coll, id)
    /\ UNCHANGED <<queryVars, ingestVars, searchVars, callVars, upc, ucount>>

NextSimple ==
    \/ \E u \in Uploads : UploadCount(u)
    \/ \E u \in Uploads, ok \in BOOLEAN : UploadInsert(u, ok)
    \/ \E id \in 1..(MaxColl + 1) : simple_delete_document(id)

InitSpecSimple == IdleQuery /\ IdleIngest /\ IdleSearch /\ IdleCalls /\ InitSimple

SpecSimple == InitSpecSimple /\ [][NextSimple]_vars

\* C4: no two documents of the simple-backend collection have the same id.
C4_UniqueIds ==
    \A i, j \in 1..Len(coll) : i # j => coll[i] # coll[j]

(***************************************************************************)
(* retrieval/hybrid_search.py                                              *)
(*                                                                         *)
(* Time is counted in minutes from a Monday 00:00; a datetime without      *)
(* seconds is such a number.  Scores are exact fractions with the common   *)
(* denominator Scale.                                                      *)
(***************************************************************************)
MinutesPerDay == 24 * 60

\* datetime.now() of the search call: a Wednesday, 15:00
Now == 9 * MinutesPerDay + 15 * 60

\* The store that search reads: chunk c belongs to a document of its own,
\* ingested c - 1 days and half an hour before Now.
source_type_of(c) == IF c % 2 = 1 THEN "text" ELSE "pdf"
created_at_of(c) == Now - (c - 1) * MinutesPerDay - 30
tags_of(c) == IF c % 3 = 1 THEN {"work"} ELSE {}

\* a date string: datetime.isoformat() output, or text that is no date;
\* Absent is a key that the date_range dict does not have
IsoString(t) == [present |-> TRUE, valid |-> TRUE, t |-> t]
Garbage == [present |-> TRUE, valid |-> FALSE, t |-> 0]
Absent == [present |-> FALSE, valid |-> FALSE, t |-> 0]

\* datetime.isoformat / datetime.fromisoformat (ValueError on garbage)
isoformat(t) == IsoString(t)

\* a parser that reads any text as a date
fromisoformat_lenient(str) == [raised |-> FALSE, t |-> str.t]

fromisoformat(str) ==
    IF str.valid THEN [raised |-> FALSE, t |-> str.t]
    ELSE [raised |-> TRUE, t |-> 0]

\* _parse_temporal_query: the query is the set of temporal phrases its text
\* contains; the first pattern of temporal_patterns, in dict order, wins
DateRange(start, end) == [start |-> start, end |-> end]

\* date_range None (or {}), and Python's truth value of a date_range
NoRange == DateRange(Absent, Absent)
Truthy(date_range) == date_range.start.present \/ date_range.end.present

_parse_temporal_query(query, now) ==
    IF "last week" \in query THEN
        DateRange(isoformat(now - 7 * MinutesPerDay), isoformat(now))
    ELSE IF "yesterday" \in query THEN
        DateRange(isoformat(now - MinutesPerDay),
                  isoformat(now - MinutesPerDay + 23 * 60 + 59))
    ELSE IF "last month" \in query THEN
        DateRange(isoformat(now - 30 * MinutesPerDay), isoformat(now))
    ELSE IF "today" \in query THEN
        DateRange(isoformat(now - (now % MinutesPerDay)), isoformat(now))
    ELSE IF "this week" \in query THEN
        DateRange(isoformat(now - ((now \div MinutesPerDay) % 7) * MinutesPerDay),
                  isoformat(now))
    ELSE NoRange

\* _apply_filters: the chunks the WHERE clauses let through, or the
\* ValueError of an unparseable bound.  source_types and tags are sets, the
\* empty set standing for None and for the empty list (both false in
\* Python).  The tags filter adds no clause.
_apply_filters(source_types, date_range, tags) ==
    LET bySource == IF source_types # {}
                      THEN {c \in ChunkIds : source_type_of(c) \in source_types}
                      ELSE ChunkIds
        hasStart == Truthy(date_range) /\ date_range.start.present
        hasEnd == Truthy(date_range) /\ date_range.end.present
        start == IF hasStart THEN fromisoformat(date_range.start)
                 ELSE [raised |-> FALSE, t |-> 0]
        end == IF hasEnd THEN fromisoformat(date_range.end)
               ELSE [raised |-> FALSE, t |-> 0]
    IN  IF start.raised \/ end.raised
          THEN [raised |-> TRUE, rows |-> {}]
          ELSE [raised |-> FALSE,
                rows |-> {c \in bySource :
                            /\ hasStart => created_at_of(c) >= start.t
                            /\ hasEnd => created_at_of(c) <= end.t}]

\* the dict built for each row of a sub-search; the sub-search's own score
\* (similarity, ts_rank) is not part of the model, only the order it induces
Row(c, search_type) ==
    [chunk_id |-> c, document_id |-> c, source_type |-> source_type_of(c),
     created_at |-> created_at_of(c), relevance_score |-> 0,
     search_type |-> search_type]

\* SQL LIMIT n
Take(seq, n) == SubSeq(seq, 1, IF n < Len(seq) THEN n ELSE Len(seq))

\* ORDER BY ... over the filtered rows: order lists all chunks, best first
RECURSIVE Restrict(_, _)
Restrict(order, keep) ==
    IF order = <<>> THEN <<>>
    ELSE (IF Head(order) \in keep THEN <<Head(order)>> ELSE <<>>)
         \o Restrict(Tail(order), keep)

\* what a sub-search does when db.execute raises: log and return []
except_reraise == [raised |-> TRUE, rows |-> <<>>]
except_return == [raised |-> FALSE, rows |-> <<>>]

\* _semantic_search: order is the similarity order of the query embedding
_semantic_search(order, limit, source_types, date_range, tags, fail) ==
    LET f == _apply_filters(source_types, date_range, tags)
        rows == Take(Restrict(order, f.rows), limit)
    IN  IF f.raised THEN [raised |-> TRUE, rows |-> <<>>]
        ELSE IF fail THEN except_return
        ELSE [raised |-> FALSE,
              rows |-> [i \in 1..Len(rows) |-> Row(rows[i], "semantic")]]

\* _keyword_search: ranked lists the chunks the tsquery matches, in ts_rank
\* order
_keyword_search(ranked, limit, source_types, date_range, tags, fail) ==
    LET f == _apply_filters(source_types, date_range, tags)
        rows == Take(Restrict(ranked, f.rows), limit)
    IN  IF f.raised THEN [raised |-> TRUE, rows |-> <<>>]
        ELSE IF fail THEN except_return
        ELSE [raised |-> FALSE,
              rows |-> [i \in 1..Len(rows) |-> Row(rows[i], "keyword")]]

(***************************************************************************)
(* _reciprocal_rank_fusion                                                 *)
(***************************************************************************)
RRF_K == 60

RECURSIVE GCD(_, _)
GCD(a, b) == IF b = 0 THEN a ELSE GCD(b, a % b)

RECURSIVE LCMUpTo(_)
LCMUpTo(n) ==
    IF n = 0 THEN 1
    ELSE LET m == LCMUpTo(n - 1)
             d == RRF_K + n
         IN  (m \div GCD(m, d)) * d

\* common denominator of the fractions 1/(k + rank + 1), rank < NChunks
Scale == LCMUpTo(NChunks)

\* rrf_score = 1.0 / (k + rank + 1), rank 0-indexed, as a multiple of 1/Scale
rrf_score_reversed(rank) == Scale \div (RRF_K + NChunks - rank)
rrf_score(rank) == Scale \div (RRF_K + rank + 1)

RECURSIVE SumScores(_, _)
\* the score one list adds to chunk c: one term per position that holds c
SumScores(results, c) ==
    IF results = <<>> THEN 0
    ELSE SumScores(SubSeq(results, 1, Len(results) - 1), c)
         + (IF results[Len(results)].chunk_id = c
              THEN rrf_score(Len(results) - 1) ELSE 0)

\* the scores dict after both loops
scores(semantic, keyword) ==
    [c \in {semantic[i].chunk_id : i \in 1..Len(semantic)}
           \cup {keyword[i].chunk_id : i \in 1..Len(keyword)}
       |-> SumScores(semantic, c) + SumScores(keyword, c)]

RECURSIVE FirstOccurrences(_)
\* rows of a list without the later rows of a chunk_id already seen: the
\* insertion order of the dicts scores and all_results
FirstOccurrences(results) ==
    IF results = <<>> THEN <<>>
    ELSE LET init == FirstOccurrences(SubSeq(results, 1, Len(results) - 1))
             last == results[Len(results)]
         IN  IF \E i \in 1..Len(init) : init[i].chunk_id = last.chunk_id
               THEN init ELSE Append(init, last)

RemoveAt(seq, i) == SubSeq(seq, 1, i - 1) \o SubSeq(seq, i + 1, Len(seq))

RECURSIVE sorted_reverse(_, _)
\* sorted(..., key=score, reverse=True): descending, stable
sorted_reverse(rows, score) ==
    IF rows = <<>> THEN <<>>
    ELSE LET best == CHOOSE i \in 1..Len(rows) :
                       /\ \A j \in 1..Len(rows) :
                            score[rows[j].chunk_id] <= score[rows[i].chunk_id]
                       /\ \A j \in 1..(i - 1) :
                            score[rows[j].chunk_id] < score[rows[i].chunk_id]
         IN  <<rows[best]>> \o sorted_reverse(RemoveAt(rows, best), score)

\* sorted_chunks[:limit]
NoTruncate(seq, limit) == seq
Truncate(seq, limit) == Take(seq, limit)

\* the label the fusion puts on every result
fused_search_type == "hybrid"

_reciprocal_rank_fusion(semantic, keyword, limit) ==
    LET score == scores(semantic, keyword)
        all_results == FirstOccurrences(semantic \o keyword)
        sorted_chunks == Truncate(sorted_reverse(all_results, score), limit)
    IN  [i \in 1..Len(sorted_chunks) |->
           [sorted_chunks[i] EXCEPT
              !.relevance_score = score[sorted_chunks[i].chunk_id],
              !.search_type = fused_search_type]]

\* EmbeddingGenerator.generate_embedding: the zero vector for blank text and
\* when the model raises, the model's vector otherwise
generate_embedding(blank, model_raises) ==
    IF blank \/ model_raises THEN "zero" ELSE "vector"

(***************************************************************************)
(* Inputs of a search call                                                 *)
(***************************************************************************)
\* lists over S without repetition, and the orderings of S
NoDupSeqs(S) ==
    UNION {{f \in [1..n -> S] : \A i, j \in 1..n : i # j => f[i] # f[j]} :
             n \in 0..Cardinality(S)}
Orders(S) == {f \in NoDupSeqs(S) : Len(f) = Cardinality(S)}

\* the query text, as the set of temporal phrases it contains
Queries == {{}, {"yesterday"}, {"today", "last week"}}
SourceFilters == {{}, {"text"}}
TagFilters == {{}, {"work"}}
DateFilters ==
    {NoRange,
     DateRange(IsoString(Now - MinutesPerDay), Absent),
     DateRange(IsoString(Now - 2 * MinutesPerDay), IsoString(Now - MinutesPerDay)),
     DateRange(Garbage, IsoString(Now))}
Faults == {"none", "semantic", "keyword", "both", "embedding"}

NoRequest ==
    [query |-> {}, limit |-> 0, source_types |-> {}, date_range |-> NoRange,
     tags |-> {}, query_embedding |-> "vector"]

InitSearch ==
    /\ req = NoRequest
    /\ semantic_results = <<>>
    /\ keyword_results = <<>>
    /\ fused_results = <<>>
    /\ sout = "none"
    /\ faults = "none"
    /\ improved = [chunk_id |-> 0, before |-> 0]

(***************************************************************************)
(* HybridSearchEngine.search, one step per awaited call.  fault is what    *)
(* fails in the backends during the call, order the similarity order of    *)
(* the chunks for the query embedding, ranked the chunks the tsquery       *)
(* matches in ts_rank order.                                               *)
(***************************************************************************)
SimilarityOrders == Orders(ChunkIds)
RankedMatches == NoDupSeqs(ChunkIds)

\* lines 30-33: the date_range the two sub-searches receive in a call made
\* at the clock reading now
date_range_at(query, date_range, now) ==
    LET temporal_filter == _parse_temporal_query(query, now)
    IN  IF Truthy(temporal_filter) /\ ~Truthy(date_range)
          THEN temporal_filter ELSE date_range

\* a search in which the temporal expression of the query overrides the
\* date_range argument
effective_date_range_temporal_first(query, date_range) ==
    LET temporal_filter == _parse_temporal_query(query, Now)
    IN  IF Truthy(temporal_filter) THEN temporal_filter ELSE date_range

effective_date_range(query, date_range) == date_range_at(query, date_range, Now)

\* lines 30-36: the call, the temporal filter, the query embedding
search_begin(query, limit, source_types, date_range, tags, fault) ==
    /\ sout = "none"
    /\ req' = [query |-> query, limit |-> limit,
               source_types |-> source_types, date_range |-> date_range,
               tags |-> tags,
               query_embedding |-> generate_embedding(FALSE, fault = "embedding")]
    /\ faults' = fault
    /\ sout' = "embedded"
    /\ UNCHANGED <<queryVars, ingestVars, simpleVars, callVars, semantic_results, keyword_results,
                   fused_results, improved>>

\* lines 38-41
search_semantic(order) ==
    LET sem == _semantic_search(order, req.limit * 2, req.source_types,
                   effective_date_range(req.query, req.date_range), req.tags,
                   faults \in {"semantic", "both"})
    IN  /\ sout = "embedded"
        /\ semantic_results' = sem.rows
        /\ sout' = IF sem.raised THEN "raised" ELSE "semantic_done"
        /\ UNCHANGED <<queryVars, ingestVars, simpleVars, callVars, req, faults, keyword_results,
                       fused_results, improved>>

\* lines 43-52
search_keyword(ranked) ==
    LET kw == _keyword_search(ranked, req.limit * 2,
                  req.source_types,
                  effective_date_range(req.query, req.date_range), req.tags,
                  faults \in {"keyword", "both"})
    IN  /\ sout = "semantic_done"
        /\ keyword_results' = kw.rows
        /\ IF kw.raised
             THEN /\ sout' = "raised"
                  /\ UNCHANGED fused_results
             ELSE /\ fused_results' =
                       _reciprocal_rank_fusion(semantic_results, kw.rows,
                                               req.limit)
                  /\ sout' = "ok"
        /\ UNCHANGED <<queryVars, ingestVars, simpleVars, callVars, req, faults, semantic_results,
                       improved>>

NextSearch ==
    \/ \E query \in Queries, limit \in Limits, source_types \in SourceFilters,
          date_range \in DateFilters, tags \in TagFilters, fault \in Faults :
         search_begin(query, limit, source_types, date_range, tags, fault)
    \/ \E order \in SimilarityOrders : search_semantic(order)
    \/ \E ranked \in RankedMatches : search_keyword(ranked)

InitSpecSearch == IdleQuery /\ IdleIngest /\ IdleSimple /\ IdleCalls /\ InitSearch

SpecSearch == InitSpecSearch /\ [][NextSearch]_vars

(***************************************************************************)
(* SpecFusion: _reciprocal_rank_fusion on arbitrary pairs of lists without *)
(* repeated chunk_id, and on the pair obtained by moving one chunk to an   *)
(* earlier rank of one list.                                               *)
(***************************************************************************)
FusionLists == NoDupSeqs(ChunkIds)

Rows(ids, search_type) == [i \in 1..Len(ids) |-> Row(ids[i], search_type)]

InitFusion ==
    /\ \E sem \in FusionLists, kw \in FusionLists :
         /\ semantic_results = Rows(sem, "semantic")
         /\ keyword_results = Rows(kw, "keyword")
    /\ \E limit \in Limits : req = [NoRequest EXCEPT !.limit = limit]
    /\ fused_results = <<>>
    /\ sout = "none"
    /\ faults = "none"
    /\ improved = [chunk_id |-> 0, before |-> 0]

Fuse ==
    /\ sout = "none"
    /\ fused_results' =
         _reciprocal_rank_fusion(semantic_results, keyword_results, req.limit)
    /\ sout' = "ok"
    /\ UNCHANGED <<queryVars, ingestVars, simpleVars, callVars, req, semantic_results,
                   keyword_results, faults, improved>>

\* the list with the row at position i moved to the earlier position j
MoveEarlier(results, i, j) ==
    SubSeq(results, 1, j - 1) \o <<results[i]>>
      \o SubSeq(results, j, i - 1) \o SubSeq(results, i + 1, Len(results))

\* the same fusion after one chunk's rank improved in one of the two lists
FuseImproved(inSemantic, i, j) ==
    LET list == IF inSemantic THEN semantic_results ELSE keyword_results
        c == list[i].chunk_id
        sem2 == IF inSemantic THEN MoveEarlier(list, i, j) ELSE semantic_results
        kw2 == IF inSemantic THEN keyword_results ELSE MoveEarlier(list, i, j)
    IN  /\ sout = "ok"
        /\ improved.chunk_id = 0
        /\ i \in 2..Len(list)
        /\ j \in 1..(i - 1)
        /\ improved' = [chunk_id |-> c,
                        before |-> scores(semantic_results, keyword_results)[c]]
        /\ semantic_results' = sem2
        /\ keyword_results' = kw2
        /\ fused_results' = _reciprocal_rank_fusion(sem2, kw2, req.limit)
        /\ UNCHANGED <<queryVars, ingestVars, simpleVars, callVars, req, sout, faults>>

NextFusion ==
    \/ Fuse
    \/ \E inSemantic \in BOOLEAN, i \in 1..NChunks, j \in 1..NChunks :
         FuseImproved(inSemantic, i, j)

InitSpecFusion == IdleQuery /\ IdleIngest /\ IdleSimple /\ IdleCalls /\ InitFusion

SpecFusion == InitSpecFusion /\ [][NextFusion]_vars

(***************************************************************************)
(* Claims about the fusion and the search                                  *)
(***************************************************************************)
ChunkIdsOf(results) == {results[i].chunk_id : i \in 1..Len(results)}

\* 0-indexed rank of chunk c in a list that contains it
RankIn(results, c) ==
    (CHOOSE i \in 1..Len(results) : results[i].chunk_id = c) - 1

\* 1/(k + r + 1), as a multiple of 1/Scale, if c is in the list at rank r
Contribution(results, c) ==
    IF c \in ChunkIdsOf(results)
      THEN Scale \div (RRF_K + RankIn(results, c) + 1) ELSE 0

\* C5: the relevance_score of every returned chunk is the sum, over the
\* semantic and the keyword list that contain it, of 1/(k + r + 1) for its
\* 0-indexed rank r in that list (k = 60); a returned chunk that is in both
\* lists scores strictly higher than a returned chunk that is in one list
\* only, at a rank the first chunk has too.
C5_FusedScore ==
    sout = "ok" =>
      /\ \A i \in 1..Len(fused_results) :
           fused_results[i].relevance_score =
               Contribution(semantic_results, fused_results[i].chunk_id)
             + Contribution(keyword_results, fused_results[i].chunk_id)
      /\ \A i, j \in 1..Len(fused_results) :
           LET a == fused_results[i].chunk_id
               b == fused_results[j].chunk_id
               S == ChunkIdsOf(semantic_results)
               K == ChunkIdsOf(keyword_results)
           IN  (/\ a \in S \cap K
                /\ \/ /\ b \in S \ K
                      /\ RankIn(semantic_results, b)
                           \in {RankIn(semantic_results, a),
                                RankIn(keyword_results, a)}
                   \/ /\ b \in K \ S
                      /\ RankIn(keyword_results, b)
                           \in {RankIn(semantic_results, a),
                                RankIn(keyword_results, a)})
               => fused_results[i].relevance_score
                    > fused_results[j].relevance_score

\* C5 witness: a fusion that returned a chunk of both lists together with a
\* chunk that only the keyword list holds, at the rank the first one has in
\* the semantic list.
C5_Witness ==
    /\ sout = "ok"
    /\ \E i, j \in 1..Len(fused_results) :
         LET a == fused_results[i].chunk_id
             b == fused_results[j].chunk_id
         IN  /\ a \in ChunkIdsOf(semantic_results) \cap ChunkIdsOf(keyword_results)
             /\ b \in ChunkIdsOf(keyword_results) \ ChunkIdsOf(semantic_results)
             /\ RankIn(keyword_results, b) = RankIn(semantic_results, a)
             /\ RankIn(keyword_results, a) > 0

\* C6: after one chunk moved to an earlier rank in one of the two lists, the
\* other list unchanged, its fused score is not lower than before.
C6_Monotonic ==
    improved.chunk_id # 0 =>
      scores(semantic_results, keyword_results)[improved.chunk_id]
        >= improved.before

\* C6 witness: a chunk's rank was improved and its fused score grew.
C6_Witness ==
    /\ improved.chunk_id # 0
    /\ scores(semantic_results, keyword_results)[improved.chunk_id]
         > improved.before

\* C7: search returns at most limit results, in non-increasing order of
\* fused score, no chunk_id twice; each sub-search hands at most 2 * limit
\* rows to the fusion.
C7_ResultShape ==
    sout = "ok" =>
      /\ Len(fused_results) <= req.limit
      /\ \A i \in 1..(Len(fused_results) - 1) :
           fused_results[i].relevance_score
             >= fused_results[i + 1].relevance_score
      /\ \A i, j \in 1..Len(fused_results) :
           i # j => fused_results[i].chunk_id # fused_results[j].chunk_id
      /\ Len(semantic_results) <= 2 * req.limit
      /\ Len(keyword_results) <= 2 * req.limit

\* C7 witness: a search that filled the semantic list up to 2 * limit rows,
\* returned limit results and left a candidate out.
C7_Witness ==
    /\ sout = "ok"
    /\ req.limit >= 1
    /\ Len(semantic_results) = 2 * req.limit
    /\ Len(fused_results) = req.limit
    /\ ChunkIdsOf(keyword_results) \ ChunkIdsOf(fused_results) # {}

\* C8: every result of a search satisfies every filter given to it: source
\* type in source_types, created_at within date_range, and one of the
\* requested tags on its document.
C8_ResultsSatisfyFilters ==
    sout = "ok" =>
      \A i \in 1..Len(fused_results) :
        LET r == fused_results[i] IN
        /\ req.source_types # {} => r.source_type \in req.source_types
        /\ req.date_range.start.present
             => r.created_at >= req.date_range.start.t
        /\ req.date_range.end.present
             => r.created_at <= req.date_range.end.t
        /\ req.tags # {} => tags_of(r.chunk_id) \cap req.tags # {}

\* C9: a search call raises only for a date_range bound that is no date,
\* never for a failed sub-search; when only the semantic sub-search failed
\* the result is the fusion of the keyword list alone (its first limit rows,
\* in its order, each scored 1/(k + rank + 1)), and the other way round.
AloneFusion(results) ==
    /\ Len(fused_results) =
         (IF req.limit < Len(results) THEN req.limit ELSE Len(results))
    /\ \A i \in 1..Len(fused_results) :
         /\ fused_results[i].chunk_id = results[i].chunk_id
         /\ fused_results[i].relevance_score = Scale \div (RRF_K + i)

C9_OneSignalSuffices ==
    /\ sout = "raised"
         => \/ req.date_range.start.present /\ ~req.date_range.start.valid
            \/ req.date_range.end.present /\ ~req.date_range.end.valid
    /\ (sout = "ok" /\ faults = "semantic")
         => semantic_results = <<>> /\ AloneFusion(keyword_results)
    /\ (sout = "ok" /\ faults = "keyword")
         => keyword_results = <<>> /\ AloneFusion(semantic_results)

\* C9 witness: the semantic sub-search failed, the keyword sub-search
\* returned rows, and the search returned results.
C9_Witness ==
    /\ sout = "ok"
    /\ faults = "semantic"
    /\ Len(keyword_results) > req.limit
    /\ Len(fused_results) >= 2

\* chunk c passes the created_at clauses of a date_range with valid bounds
Within(c, date_range) ==
    /\ date_range.start.present => created_at_of(c) >= date_range.start.t
    /\ date_range.end.present => created_at_of(c) <= date_range.end.t

\* the chunks a sub-search can return under the request's source types and
\* the given date_range
Admitted(date_range) ==
    {c \in ChunkIds :
        /\ req.source_types # {} => source_type_of(c) \in req.source_types
        /\ Within(c, date_range)}

\* the rows of both sub-searches are admitted under date_range, and the
\* semantic sub-search, when it did not fail and its limit holds every
\* chunk, returned all the admitted chunks
SubSearchesUsed(date_range) ==
    /\ ChunkIdsOf(semantic_results) \cup ChunkIdsOf(keyword_results)
          \subseteq Admitted(date_range)
    /\ (faults \notin {"semantic", "both"} /\ 2 * req.limit >= NChunks)
          => ChunkIdsOf(semantic_results) = Admitted(date_range)

\* C22: when a date_range argument is given, both sub-searches filter by
\* it, whatever the query text contains; the range of a temporal expression
\* of the query is what they filter by only when none is given.
C22_ExplicitDateRangeWins ==
    sout \in {"semantic_done", "ok"} =>
        IF Truthy(req.date_range)
          THEN SubSearchesUsed(req.date_range)
          ELSE SubSearchesUsed(_parse_temporal_query(req.query, Now))

\* C22 witness: a search with a date_range argument and a temporal
\* expression in the query returned a chunk that the range of the temporal
\* expression excludes.
C22_Witness ==
    /\ sout = "ok"
    /\ Truthy(req.date_range)
    /\ Truthy(_parse_temporal_query(req.query, Now))
    /\ \E c \in ChunkIdsOf(fused_results) :
         ~Within(c, _parse_temporal_query(req.query, Now))

\* the request's date_range has a bound that is no date
MalformedDateRange ==
    \/ req.date_range.start.present /\ ~req.date_range.start.valid
    \/ req.date_range.end.present /\ ~req.date_range.end.valid

\* C23: a search whose date_range has a bound that is no date raises in its
\* first sub-search: it returns no result list, and no sub-search turns the
\* error into an empty list.
C23_MalformedDateRejected ==
    (MalformedDateRange /\ sout \notin {"none", "embedded"}) =>
        /\ sout = "raised"
        /\ semantic_results = <<>>
        /\ keyword_results = <<>>
        /\ fused_results = <<>>

\* C23 witness: a search with a malformed date_range raised although both
\* sub-searches were failing (their handlers return []), for a query that
\* holds a temporal expression.
C23_Witness ==
    /\ sout = "raised"
    /\ MalformedDateRange
    /\ faults = "both"
    /\ req.query # {}

\* the search_type labels on the results of a search in which both signals
\* contributed
FullSearchLabels ==
    LET all == [i \in 1..NChunks |-> i]
        full == _reciprocal_rank_fusion(Rows(all, "semantic"),
                                        Rows(all, "keyword"), NChunks)
    IN  {full[i].search_type : i \in 1..Len(full)}

\* C10: the results of a search in which a sub-search failed, or the
\* embedding backend returned its failure value, carry a search_type label
\* that no result of an undegraded search carries.
C10_DegradedObservable ==
    (sout = "ok" /\ faults # "none") =>
      \A i \in 1..Len(fused_results) :
        fused_results[i].search_type \notin FullSearchLabels

(***************************************************************************)
(* Text: a str is the sequence of its characters                           *)
(***************************************************************************)
ascii_lowercase == <<"a", "b", "c", "d", "e", "f", "g", "h", "i", "j", "k", "l", "m",
                     "n", "o", "p", "q", "r", "s", "t", "u", "v", "w", "x", "y", "z">>
ascii_uppercase == <<"A", "B", "C", "D", "E", "F", "G", "H", "I", "J", "K", "L", "M",
                     "N", "O", "P", "Q", "R", "S", "T", "U", "V", "W", "X", "Y", "Z">>
digits == {"0", "1", "2", "3", "4", "5", "6", "7", "8", "9"}
whitespace == {" "}

Range(seq) == {seq[i] : i \in 1..Len(seq)}
SetMin(S) == CHOOSE x \in S : \A y \in S : x <= y
SetMax(S) == CHOOSE x \in S : \A y \in S : x >= y

lowercase_letters == Range(ascii_lowercase)
uppercase_letters == Range(ascii_uppercase)

\* str.lower
char_lower(c) ==
    IF c \in uppercase_letters
      THEN ascii_lowercase[CHOOSE i \in 1..Len(ascii_uppercase) : ascii_uppercase[i] = c]
      ELSE c
lower(s) == [i \in 1..Len(s) |-> char_lower(s[i])]

\* str.strip(chars); str.strip() is strip(s, whitespace)
RECURSIVE lstrip(_, _)
lstrip(s, chars) ==
    IF s # <<>> /\ Head(s) \in chars THEN lstrip(Tail(s), chars) ELSE s
RECURSIVE rstrip(_, _)
rstrip(s, chars) ==
    IF s # <<>> /\ s[Len(s)] \in chars
      THEN rstrip(SubSeq(s, 1, Len(s) - 1), chars)
      ELSE s
strip(s, chars) == rstrip(lstrip(s, chars), chars)

\* str.split(): the maximal runs of non-whitespace characters
RECURSIVE split(_)
split(s) ==
    LET t == lstrip(s, whitespace)
        blanks == {i \in 1..Len(t) : t[i] \in whitespace}
        e == IF blanks = {} THEN Len(t) + 1 ELSE SetMin(blanks)
    IN  IF t = <<>> THEN <<>>
        ELSE <<SubSeq(t, 1, e - 1)>> \o split(SubSeq(t, e, Len(t)))

\* str.isalpha, str.isdigit: non-empty and every character of the class
isalpha(s) ==
    s # <<>> /\ \A i \in 1..Len(s) : char_lower(s[i]) \in lowercase_letters
isdigit(s) == s # <<>> /\ \A i \in 1..Len(s) : s[i] \in digits

\* `needle in hay` of two str
StartsAt(hay, needle, i) ==
    /\ i + Len(needle) - 1 <= Len(hay)
    /\ \A k \in 1..Len(needle) : hay[i + k - 1] = needle[k]
In(needle, hay) == \E i \in 1..(Len(hay) + 1) : StartsAt(hay, needle, i)

\* ' '.join(words)
RECURSIVE join(_)
join(words) ==
    IF words = <<>> THEN <<>>
    ELSE IF Len(words) = 1 THEN words[1]
    ELSE words[1] \o <<" ">> \o join(Tail(words))

\* all sequences over S of length 1..n
SeqsUpTo(S, n) == UNION {[1..k -> S] : k \in 1..n}

(***************************************************************************)
(* simple-backend.py: temporal expressions                                 *)
(*                                                                         *)
(* A datetime is [ord, sec, us]: the day (day 1 is 2023-12-01), the second *)
(* of that day and the microsecond of that second.                         *)
(***************************************************************************)
MonthLengths == <<31, 31, 29, 31>>   \* December 2023 .. March 2024
SecondsPerDay == 24 * 60 * 60

datetime(ord, sec, us) == [ord |-> ord, sec |-> sec, us |-> us]

\* None, which no datetime of the model equals
None == datetime(0, 0, 0)

\* Monday is 0; 2023-12-01 is a Friday
weekday(dt) == (dt.ord + 3) % 7

RECURSIVE month_first(_)
month_first(m) == IF m = 1 THEN 1 ELSE month_first(m - 1) + MonthLengths[m - 1]
month_of(dt) ==
    CHOOSE m \in 1..Len(MonthLengths) :
        month_first(m) <= dt.ord /\ dt.ord < month_first(m) + MonthLengths[m]
day_of(dt) == dt.ord - month_first(month_of(dt)) + 1

\* datetime.replace(hour=.., minute=.., second=.., microsecond=..)
replace_time(dt, hour, minute, second, microsecond) ==
    [dt EXCEPT !.sec = (hour * 60 + minute) * 60 + second, !.us = microsecond]
\* datetime.replace(day=..)
replace_day(dt, day) == [dt EXCEPT !.ord = month_first(month_of(dt)) + day - 1]

\* datetime + relativedelta(months=.., days=.., seconds=..): the months
\* first (the day clipped to the length of the month), then the rest
plus_months(dt, months) ==
    LET m == month_of(dt) + months
        d == IF day_of(dt) > MonthLengths[m] THEN MonthLengths[m] ELSE day_of(dt)
    IN  [dt EXCEPT !.ord = month_first(m) + d - 1]
plus_days(dt, days) == [dt EXCEPT !.ord = dt.ord + days]
plus_seconds(dt, seconds) ==
    LET total == dt.sec + seconds IN
    [dt EXCEPT !.ord = dt.ord + (total \div SecondsPerDay),
               !.sec = total % SecondsPerDay]

\* a <= b of two datetimes
dt_le(a, b) ==
    \/ a.ord < b.ord
    \/ a.ord = b.ord /\ a.sec < b.sec
    \/ a.ord = b.ord /\ a.sec = b.sec /\ a.us <= b.us

\* temporal_patterns, in dict order.  kind "literal": the pattern is its
\* text; "word_digits": prefix (\w+) blank (\d{lo,hi}); "rest": prefix (.+)
temporal_patterns == <<
    [prefix |-> <<"l", "a", "s", "t", " ", "w", "e", "e", "k">>,
     kind |-> "literal", lo |-> 0, hi |-> 0, config |-> [type |-> "relative_week", amount |-> -7]],
    [prefix |-> <<"t", "h", "i", "s", " ", "w", "e", "e", "k">>,
     kind |-> "literal", lo |-> 0, hi |-> 0, config |-> [type |-> "current_week", amount |-> 0]],
    [prefix |-> <<"l", "a", "s", "t", " ", "m", "o", "n", "t", "h">>,
     kind |-> "literal", lo |-> 0, hi |-> 0, config |-> [type |-> "relative_month", amount |-> -1]],
    [prefix |-> <<"t", "h", "i", "s", " ", "m", "o", "n", "t", "h">>,
     kind |-> "literal", lo |-> 0, hi |-> 0, config |-> [type |-> "current_month", amount |-> 0]],
    [prefix |-> <<"y", "e", "s", "t", "e", "r", "d", "a", "y">>,
     kind |-> "literal", lo |-> 0, hi |-> 0, config |-> [type |-> "relative_day", amount |-> -1]],
    [prefix |-> <<"t", "o", "d", "a", "y">>,
     kind |-> "literal", lo |-> 0, hi |-> 0, config |-> [type |-> "current_day", amount |-> 0]],
    [prefix |-> <<"l", "a", "s", "t", " ", "y", "e", "a", "r">>,
     kind |-> "literal", lo |-> 0, hi |-> 0, config |-> [type |-> "relative_year", amount |-> -1]],
    [prefix |-> <<"i", "n", " ">>,
     kind |-> "word_digits", lo |-> 4, hi |-> 4, config |-> [type |-> "month_year", amount |-> 0]],
    [prefix |-> <<"o", "n", " ">>,
     kind |-> "word_digits", lo |-> 1, hi |-> 2, config |-> [type |-> "month_day", amount |-> 0]],
    [prefix |-> <<"b", "e", "f", "o", "r", "e", " ">>,
     kind |-> "rest", lo |-> 0, hi |-> 0, config |-> [type |-> "before_context", amount |-> 0]],
    [prefix |-> <<"a", "f", "t", "e", "r", " ">>,
     kind |-> "rest", lo |-> 0, hi |-> 0, config |-> [type |-> "after_context", amount |-> 0]],
    [prefix |-> <<"d", "u", "r", "i", "n", "g", " ">>,
     kind |-> "rest", lo |-> 0, hi |-> 0, config |-> [type |-> "during_context", amount |-> 0]]
>>

word_chars == lowercase_letters \cup uppercase_letters \cup digits \cup {"_"}

\* length of the longest prefix of s[i..] made of characters of class, at most max
RECURSIVE run_length(_, _, _, _)
run_length(s, i, class, max) ==
    IF max = 0 \/ i > Len(s) \/ s[i] \notin class THEN 0
    ELSE 1 + run_length(s, i + 1, class, max - 1)

\* length of the match of pattern p that starts at position i of s, 0 if none
match_length(p, s, i) ==
    IF ~StartsAt(s, p.prefix, i) THEN 0
    ELSE IF p.kind = "literal" THEN Len(p.prefix)
    ELSE IF p.kind = "rest" THEN
        IF i + Len(p.prefix) <= Len(s) THEN Len(s) - i + 1 ELSE 0
    ELSE
        LET j == i + Len(p.prefix)
            w == run_length(s, j, word_chars, Len(s))
            d == run_length(s, j + w + 1, digits, p.hi)
        IN  IF w >= 1 /\ j + w <= Len(s) /\ s[j + w] = " " /\ d >= p.lo
              THEN Len(p.prefix) + w + 1 + d
              ELSE 0

\* re.finditer(pattern, s): the non-overlapping matches, left to right
RECURSIVE finditer(_, _, _)
finditer(p, s, i) ==
    IF i > Len(s) THEN <<>>
    ELSE LET n == match_length(p, s, i) IN
         IF n > 0 THEN <<[start |-> i - 1, end |-> i - 1 + n]>> \o finditer(p, s, i + n)
         ELSE finditer(p, s, i + 1)

RECURSIVE found_from(_, _)
found_from(k, query_lower) ==
    IF k > Len(temporal_patterns) THEN <<>>
    ELSE LET matches == finditer(temporal_patterns[k], query_lower, 1) IN
         [m \in 1..Len(matches) |->
             [pattern |-> k, config |-> temporal_patterns[k].config,
              position |-> matches[m]]]
         \o found_from(k + 1, query_lower)

extract_temporal_expressions(query) == found_from(1, lower(query))

\* one iteration of the loop of resolve_temporal_expressions, with a branch
\* that forgets to set 'end'
resolve_expression_start_only(date_range, expr, now) ==
    LET config == expr.config
        midnight == replace_time(now, 0, 0, 0, 0)
    IN
    IF config.type = "current_day" THEN [date_range EXCEPT !.start = midnight]
    ELSE IF config.type = "relative_day" /\ config.amount = -1 THEN
        [start |-> replace_time(plus_days(now, -1), 0, 0, 0, 0),
         end |-> replace_time(plus_days(now, -1), 23, 59, 59, 999999)]
    ELSE IF config.type = "current_week" THEN
        [date_range EXCEPT !.start = plus_days(midnight, -weekday(midnight))]
    ELSE date_range

\* one iteration of the loop of resolve_temporal_expressions
resolve_expression(date_range, expr, now) ==
    LET config == expr.config IN
    IF config.type = "relative_week" THEN
        IF config.amount = -7 THEN
            LET week_ago == replace_time(plus_days(now, -7), 0, 0, 0, 0)
                start_of_last_week == plus_days(week_ago, -weekday(week_ago))
            IN  [start |-> start_of_last_week,
                 end |-> plus_seconds(plus_days(start_of_last_week, 6),
                                      (23 * 60 + 59) * 60 + 59)]
        ELSE date_range
    ELSE IF config.type = "current_week" THEN
        LET midnight == replace_time(now, 0, 0, 0, 0) IN
        [start |-> plus_days(midnight, -weekday(midnight)), end |-> now]
    ELSE IF config.type = "relative_month" THEN
        IF config.amount = -1 THEN
            LET start_of_last_month ==
                    plus_months(replace_time(replace_day(now, 1), 0, 0, 0, 0), -1)
            IN  [start |-> start_of_last_month,
                 end |-> plus_seconds(plus_months(start_of_last_month, 1), -1)]
        ELSE date_range
    ELSE IF config.type = "current_month" THEN
        [start |-> replace_time(replace_day(now, 1), 0, 0, 0, 0), end |-> now]
    ELSE IF config.type = "relative_day" THEN
        IF config.amount = -1 THEN
            LET yesterday == plus_days(now, -1) IN
            [start |-> replace_time(yesterday, 0, 0, 0, 0),
             end |-> replace_time(yesterday, 23, 59, 59, 999999)]
        ELSE date_range
    ELSE IF config.type = "current_day" THEN
        [start |-> replace_time(now, 0, 0, 0, 0), end |-> now]
    ELSE date_range

RECURSIVE resolve_loop(_, _, _)
resolve_loop(date_range, temporal_expressions, now) ==
    IF temporal_expressions = <<>> THEN date_range
    ELSE resolve_loop(resolve_expression(date_range, Head(temporal_expressions), now),
                      Tail(temporal_expressions), now)

resolve_temporal_expressions(temporal_expressions, now) ==
    resolve_loop([start |-> None, end |-> None], temporal_expressions, now)

(***************************************************************************)
(* SpecTemporal: the two resolvers of temporal expressions, called with    *)
(* queries made of a few phrases at several clock readings                 *)
(***************************************************************************)
MaxPhrases == 2     \* phrases in one query

TemporalPhrases == {
    <<"t", "o", "d", "a", "y">>,
    <<"y", "e", "s", "t", "e", "r", "d", "a", "y">>,
    <<"l", "a", "s", "t", " ", "w", "e", "e", "k">>,
    <<"t", "h", "i", "s", " ", "w", "e", "e", "k">>,
    <<"l", "a", "s", "t", " ", "m", "o", "n", "t", "h">>,
    <<"t", "h", "i", "s", " ", "m", "o", "n", "t", "h">>,
    <<"l", "a", "s", "t", " ", "y", "e", "a", "r">>,
    <<"i", "n", " ", "m", "a", "y", " ", "2", "0", "2", "4">>,
    <<"b", "e", "f", "o", "r", "e", " ", "n", "o", "o", "n">>,
    <<"n", "o", "t", "e", "s">>
}
TemporalQueries == {join(ws) : ws \in SeqsUpTo(TemporalPhrases, MaxPhrases)}

\* datetime.now() of simple-backend: 2024-01-10 (a Wednesday), 2024-03-01
\* (a Friday, the day after a leap day), 2024-03-04 (a Monday); at midnight,
\* at 15:00:00 and in the last second of the day
Nows ==
    {datetime(ord, sec, us) : ord \in {41, 92, 95},
                              sec \in {0, 15 * 60 * 60, SecondsPerDay - 1},
                              us \in {0, 999999}}

\* datetime.now() of HybridSearchEngine, in minutes: midnight, 15:00, 23:59
ParseNows == {Now - 15 * 60, Now, Now + 8 * 60 + 59}

\* search_documents, line 459
extract_call ==
    /\ fn = "none"
    /\ \E query \in TemporalQueries :
        /\ fn' = "extract_temporal_expressions"
        /\ args' = [query |-> query]
        /\ ret' = extract_temporal_expressions(query)
        /\ UNCHANGED <<queryVars, ingestVars, simpleVars, searchVars>>

\* search_documents, lines 462-463, applied to the list just extracted
resolve_call ==
    /\ fn = "extract_temporal_expressions"
    /\ \E now \in Nows :
        /\ fn' = "resolve_temporal_expressions"
        /\ args' = [query |-> args.query, temporal_expressions |-> ret, now |-> now]
        /\ ret' = resolve_temporal_expressions(ret, now)
        /\ UNCHANGED <<queryVars, ingestVars, simpleVars, searchVars>>

parse_call ==
    /\ fn = "none"
    /\ \E query \in Queries, now \in ParseNows :
        /\ fn' = "_parse_temporal_query"
        /\ args' = [query |-> query, now |-> now]
        /\ ret' = _parse_temporal_query(query, now)
        /\ UNCHANGED <<queryVars, ingestVars, simpleVars, searchVars>>

NextTemporal == extract_call \/ resolve_call \/ parse_call
InitSpecTemporal == IdleQuery /\ IdleIngest /\ IdleSimple /\ IdleSearch /\ IdleCalls
SpecTemporal == InitSpecTemporal /\ [][NextTemporal]_vars

\* C16: "yesterday" resolved at now is the whole previous calendar day,
\* from 00:00:00.000000 to 23:59:59.999999, whatever the time of day of now,
\* in simple-backend and in HybridSearchEngine (there to the minute, the
\* resolution of its model).
C16_YesterdayFullDay ==
    /\ (fn = "resolve_temporal_expressions" /\ args.query = <<"y", "e", "s", "t", "e", "r", "d", "a", "y">>) =>
            ret = [start |-> datetime(args.now.ord - 1, 0, 0),
                   end |-> datetime(args.now.ord - 1, SecondsPerDay - 1, 999999)]
    /\ (fn = "_parse_temporal_query" /\ args.query = {"yesterday"}) =>
            LET midnight == args.now - (args.now % MinutesPerDay) - MinutesPerDay IN
            ret = DateRange(IsoString(midnight), IsoString(midnight + 23 * 60 + 59))

Resolvable(expr) ==
    expr.config.type \in {"relative_week", "current_week", "relative_month",
                          "current_month", "relative_day", "current_day"}

\* C17: the range returned for a list of expressions is the range of its last
\* resolvable expression alone (start and end from that one expression), and
\* {None, None} when no expression is resolvable.
C17_LastMatchWins ==
    fn = "resolve_temporal_expressions" =>
        LET exprs == args.temporal_expressions
            resolvable == {i \in 1..Len(exprs) : Resolvable(exprs[i])}
        IN  IF resolvable = {} THEN ret = [start |-> None, end |-> None]
            ELSE /\ ret = resolve_temporal_expressions(<<exprs[SetMax(resolvable)]>>,
                                                       args.now)
                 /\ ret.start # None /\ ret.end # None
                 /\ dt_le(ret.start, ret.end)

\* two resolvable expressions of different patterns, listed in the reverse
\* of their order in the query; the second one's range is returned
C17_Witness ==
    /\ fn = "resolve_temporal_expressions"
    /\ LET exprs == args.temporal_expressions IN
       /\ Len(exprs) = 2
       /\ Resolvable(exprs[1]) /\ Resolvable(exprs[2])
       /\ exprs[1].pattern # exprs[2].pattern
       /\ exprs[1].position.start > exprs[2].position.start
       /\ ret.end = args.now

(***************************************************************************)
(* simple-backend.py: search_documents                                     *)
(***************************************************************************)
\* stop_words (lines 475-478): its members that the letters of the model's
\* queries can spell, and some more
stop_words == {
    <<"t", "h", "e">>, <<"a", "n", "d">>, <<"f", "o", "r">>, <<"n", "o", "t">>, <<"a", "l", "l">>,
    <<"d", "a", "y">>, <<"n", "o", "w">>, <<"n", "e", "w">>, <<"o", "l", "d">>,
    <<"t", "h", "i", "s">>, <<"t", "h", "a", "t">>, <<"w", "i", "t", "h">>, <<"f", "r", "o", "m">>,
    <<"t", "i", "m", "e">>, <<"w", "h", "a", "t">>, <<"a", "b", "o", "u", "t">>,
    <<"w", "o", "r", "k">>, <<"l", "a", "s", "t">>, <<"y", "e", "a", "r">>, <<"r", "e", "a", "d">>,
    <<"a", "f", "t", "e", "r">>, <<"b", "e", "f", "o", "r", "e">>, <<"h", "e", "r", "e">>,
    <<"w", "h", "e", "n">>, <<"w", "h", "e", "r", "e">>
}

\* the additional exclusions of line 487
excluded_words == {
    <<"t", "h", "a", "t">>, <<"t", "h", "i", "s">>, <<"w", "i", "t", "h">>, <<"f", "r", "o", "m">>,
    <<"t", "h", "e", "y">>, <<"h", "a", "v", "e">>, <<"b", "e", "e", "n">>, <<"w", "e", "r", "e">>,
    <<"s", "a", "i", "d">>, <<"e", "a", "c", "h">>, <<"w", "h", "i", "c", "h">>,
    <<"t", "h", "e", "i", "r">>, <<"t", "i", "m", "e">>, <<"w", "i", "l", "l">>,
    <<"a", "b", "o", "u", "t">>, <<"w", "o", "u", "l", "d">>, <<"t", "h", "e", "r", "e">>,
    <<"c", "o", "u", "l", "d">>, <<"o", "t", "h", "e", "r">>
}

punctuation == {".", ",", "!", "?", ";", ":"}

\* lines 471-472
query_lower_of(query) == strip(lower(query), whitespace)
RECURSIVE strip_words(_)
strip_words(words) ==
    IF words = <<>> THEN <<>>
    ELSE (IF Len(Head(words)) > 2 THEN <<strip(Head(words), punctuation)>> ELSE <<>>)
         \o strip_words(Tail(words))
query_words_of(query) == strip_words(split(query_lower_of(query)))

\* lines 481-488, with the filter that keeps every alphabetic word
is_meaningful_any_length(word) ==
    /\ ~isdigit(word)
    /\ isalpha(word)

\* lines 483-487
is_meaningful(word) ==
    /\ Len(word) >= 4
    /\ word \notin stop_words
    /\ ~isdigit(word)
    /\ isalpha(word)
    /\ word \notin excluded_words

RECURSIVE select_meaningful(_)
select_meaningful(words) ==
    IF words = <<>> THEN <<>>
    ELSE (IF is_meaningful(Head(words)) THEN <<Head(words)>> ELSE <<>>)
         \o select_meaningful(Tail(words))
meaningful_query_words_of(query) == select_meaningful(query_words_of(query))

\* dict.get('start') and dict.get('end') of temporal_context ({} when the
\* query has no temporal expression)
has_range(temporal_context) ==
    temporal_context.start # None /\ temporal_context.end # None

\* documents_collection.find(all_docs_query), lines 498-507
find(docs, temporal_context) ==
    SelectSeq(docs, LAMBDA doc :
        has_range(temporal_context) =>
            dt_le(temporal_context.start, doc.created_at)
            /\ dt_le(doc.created_at, temporal_context.end))

\* lines 511-516
exact_phrase_match_of(query_lower, content_lower, title_lower) ==
    /\ Len(query_lower) > 6
    /\ In(query_lower, content_lower) \/ In(query_lower, title_lower)

\* lines 519-527
matched_words_of(meaningful_query_words, content_lower, title_lower) ==
    Cardinality({i \in 1..Len(meaningful_query_words) :
                    \/ In(meaningful_query_words[i], content_lower)
                    \/ In(meaningful_query_words[i], title_lower)})

\* coverage_ratio >= 0.8 decided for any coverage (line 544 without its test)
high_coverage_always(matched_words, meaningful_words) == TRUE

\* coverage_ratio >= 0.8 (line 544), the ratio being matched_words / meaningful_words
high_coverage(matched_words, meaningful_words) == 5 * matched_words >= 4 * meaningful_words

\* lines 550-567: the bonus, in thousandths, of a cosine similarity given in
\* hundredths; no bonus without a query embedding or a document embedding
semantic_bonus_of(query_embedding_ok, doc) ==
    LET semantic_score == IF query_embedding_ok THEN doc.similarity ELSE 0 IN
    IF semantic_score > 85 THEN 300
    ELSE IF semantic_score > 75 THEN 200
    ELSE IF semantic_score > 65 THEN 100
    ELSE 0

\* lines 508-592 for one document: the result row (scores in thousandths),
\* include_document telling whether it is appended
evaluate(query_lower, meaningful_query_words, query_embedding_ok, doc) ==
    LET content_lower == lower(doc.content)
        title_lower == lower(doc.title)
        exact_phrase_match == exact_phrase_match_of(query_lower, content_lower, title_lower)
        matched_words == matched_words_of(meaningful_query_words, content_lower, title_lower)
        meaningful_words == Len(meaningful_query_words)
        base_score == (matched_words * 700) \div meaningful_words
        with_bonus == base_score + semantic_bonus_of(query_embedding_ok, doc)
    IN  [include_document |->
             exact_phrase_match \/ high_coverage(matched_words, meaningful_words),
         document_id |-> doc.id,
         relevance_score |->
             IF exact_phrase_match THEN 1000
             ELSE IF with_bonus < 1000 THEN with_bonus ELSE 1000,
         word_matches |-> matched_words,
         meaningful_words |-> meaningful_words,
         exact_phrase |-> exact_phrase_match]

\* list.sort(key=relevance_score, reverse=True): stable, descending
RECURSIVE insert_by_score(_, _)
insert_by_score(sorted, row) ==
    IF sorted = <<>> THEN <<row>>
    ELSE IF Head(sorted).relevance_score >= row.relevance_score
      THEN <<Head(sorted)>> \o insert_by_score(Tail(sorted), row)
      ELSE <<row>> \o sorted
RECURSIVE sort_by_score(_)
sort_by_score(rows) ==
    IF rows = <<>> THEN <<>>
    ELSE insert_by_score(sort_by_score(SubSeq(rows, 1, Len(rows) - 1)), rows[Len(rows)])

\* search_documents returns a list, or None after the except clause of lines
\* 604-605 (that logs and does not return)
Returned(results) == [none |-> FALSE, results |-> results]
ReturnedNone == [none |-> TRUE, results |-> <<>>]

\* lines 497-602
search_results_of(query_lower, meaningful_query_words, query_embedding_ok, found) ==
    LET rows == [i \in 1..Len(found) |->
                    evaluate(query_lower, meaningful_query_words, query_embedding_ok,
                             found[i])]
        search_results == SelectSeq(rows, LAMBDA row : row.include_document)
        sorted == sort_by_score(search_results)
    IN  SubSeq(sorted, 1, IF Len(sorted) < 3 THEN Len(sorted) ELSE 3)

(***************************************************************************)
(* SpecLexical: search_documents called with a query of a few words on a   *)
(* collection of a few documents                                           *)
(***************************************************************************)
MaxQueryWords == 2  \* words in one query
MaxStore == 4       \* documents in the collection that is searched

LexicalWords == {
    <<"D", "a", "t", "a">>,
    <<"n", "o", "t", "e", "s", "?">>,
    <<"w", "o", "r", "k">>,
    <<"t", "h", "e">>,
    <<"2", "0", "2", "4">>,
    <<"t", "o", "d", "a", "y">>
}
LexicalQueries == {join(ws) : ws \in SeqsUpTo(LexicalWords, MaxQueryWords)}

\* datetime.now() of the search: 2024-01-10T15:00:00
SearchNow == datetime(41, 15 * 60 * 60, 0)

\* the documents the collection is made of: title, content, created_at and
\* the cosine similarity (hundredths) of the embedding to the query's
DocKinds == {
    [title |-> <<"D", "a", "t", "a", " ", "N", "o", "t", "e", "s">>,
     content |-> <<"d", "a", "t", "a", " ", "n", "o", "t", "e", "s", "?", " ", "t", "h", "e", " ", "w", "o", "r", "k">>,
     created_at |-> datetime(41, 10 * 60 * 60, 0), similarity |-> 90],
    [title |-> <<"W", "o", "r", "k">>,
     content |-> <<"d", "a", "t", "a", "b", "a", "s", "e">>,
     created_at |-> datetime(40, 10 * 60 * 60, 0), similarity |-> 70],
    [title |-> <<"M", "i", "s", "c">>,
     content |-> <<"t", "o", "d", "a", "y">>,
     created_at |-> datetime(41, 9 * 60 * 60, 0), similarity |-> 0]
}
Collection(kinds) ==
    [i \in 1..Len(kinds) |->
        [id |-> i, title |-> kinds[i].title, content |-> kinds[i].content,
         created_at |-> kinds[i].created_at, similarity |-> kinds[i].similarity]]
Collections == {Collection(kinds) : kinds \in {<<>>} \cup SeqsUpTo(DocKinds, MaxStore)}

\* lines 455-490: everything search_documents derives from the query alone
search_documents_begin ==
    /\ fn = "none"
    /\ \E query \in LexicalQueries, query_embedding_ok \in BOOLEAN :
        LET temporal_expressions == extract_temporal_expressions(query) IN
        /\ fn' = "search_documents_begin"
        /\ args' = [query |-> query,
                    query_lower |-> query_lower_of(query),
                    meaningful_query_words |-> meaningful_query_words_of(query),
                    temporal_context |->
                        IF temporal_expressions # <<>>
                          THEN resolve_temporal_expressions(temporal_expressions, SearchNow)
                          ELSE [start |-> None, end |-> None],
                    query_embedding_ok |-> query_embedding_ok,
                    docs |-> <<>>]
        /\ ret' = ret
        /\ UNCHANGED <<queryVars, ingestVars, simpleVars, searchVars>>

\* lines 492-602, on the collection as it is at the time of the call
search_documents_return ==
    /\ fn = "search_documents_begin"
    /\ \E docs \in Collections :
        /\ fn' = "search_documents"
        /\ args' = [args EXCEPT !.docs = docs]
        /\ ret' = IF args.meaningful_query_words = <<>> THEN Returned(<<>>)
                  ELSE Returned(search_results_of(args.query_lower,
                                                  args.meaningful_query_words,
                                                  args.query_embedding_ok,
                                                  find(docs, args.temporal_context)))
        /\ UNCHANGED <<queryVars, ingestVars, simpleVars, searchVars>>

\* lines 507 and 604-605: the cursor of find raises before a document is
\* read; the except clause logs and the function ends without a return
search_documents_except ==
    /\ fn = "search_documents_begin"
    /\ args.meaningful_query_words # <<>>
    /\ fn' = "search_documents"
    /\ args' = args
    /\ ret' = ReturnedNone
    /\ UNCHANGED <<queryVars, ingestVars, simpleVars, searchVars>>

\* submit_query of simple-backend, lines 931-967, for the value that
\* search_documents returned: generate_openai_response takes None for an
\* empty context, search_results[:1] raises TypeError on None
simple_submit_query_response(search_results) ==
    IF search_results.none
      THEN [raised |-> TRUE, sources |-> <<>>]
      ELSE [raised |-> FALSE,
            sources |-> SubSeq(search_results.results, 1,
                               IF Len(search_results.results) < 1
                                 THEN Len(search_results.results) ELSE 1)]

simple_submit_query ==
    /\ fn = "search_documents"
    /\ fn' = "submit_query"
    /\ args' = args
    /\ ret' = simple_submit_query_response(ret)
    /\ UNCHANGED <<queryVars, ingestVars, simpleVars, searchVars>>

NextLexical ==
    \/ search_documents_begin
    \/ search_documents_return
    \/ search_documents_except
    \/ simple_submit_query
InitSpecLexical == IdleQuery /\ IdleIngest /\ IdleSimple /\ IdleSearch /\ IdleCalls
SpecLexical == InitSpecLexical /\ [][NextLexical]_vars

ResultIds(results) == {results[i].document_id : i \in 1..Len(results)}
ContainsText(doc, text) == In(text, lower(doc.content)) \/ In(text, lower(doc.title))
MatchedCount(doc, words) ==
    Cardinality({i \in 1..Len(words) : ContainsText(doc, words[i])})

C12_ExactPhraseRetained ==
    fn = "search_documents" =>
        \A i \in 1..Len(args.docs) :
            (Len(args.query) > 6 /\ ContainsText(args.docs[i], lower(args.query)))
            => \E r \in 1..Len(ret.results) :
                  /\ ret.results[r].document_id = args.docs[i].id
                  /\ ret.results[r].relevance_score = 1000

\* a token that survives the length and stop-word filtering
Survives(word) ==
    LET token == strip(word, punctuation) IN
    Len(word) > 2 /\ Len(token) >= 4 /\ isalpha(token)
    /\ token \notin stop_words /\ token \notin excluded_words

\* C13: when no token of the query survives the filtering, the result is the
\* empty list, whatever the collection holds.
C13_NoMeaningfulWords ==
    fn = "search_documents" =>
        ((\A word \in Range(split(lower(args.query))) : ~Survives(word))
         => ret = Returned(<<>>))

\* a query of stop words only, searched in a collection with a document that
\* contains them
C13_Witness ==
    /\ fn = "search_documents"
    /\ \A word \in Range(split(lower(args.query))) : ~Survives(word)
    /\ \E word \in Range(split(lower(args.query))) : word \in stop_words /\ Len(word) >= 4
    /\ \E i \in 1..Len(args.docs) : ContainsText(args.docs[i], lower(args.query))
    /\ ret.results = <<>>

\* C29: search_documents returns a list, never None, and submit_query
\* answers with a sources list whatever search_documents returned.
C29_AlwaysAList ==
    /\ fn = "search_documents" => ~ret.none
    /\ fn = "submit_query" => ~ret.raised

(***************************************************************************)
(* ingestion/embedder.py: EmbeddingGenerator                               *)
(***************************************************************************)
embedding_dimension == 2   \* settings.embedding_dimension, scaled down
MaxBatch == 2              \* texts in one batch
MaxCandidates == 3         \* candidate embeddings of one find_most_similar call
MaxTopK == 4               \* largest top_k

\* [0.0] * settings.embedding_dimension
zero_vector == [i \in 1..embedding_dimension |-> 0]

\* `not text or not text.strip()`
is_blank(text) == text = <<>> \/ strip(text, whitespace) = <<>>

\* lines 40-46 with the truncation left out
ensure_dimension_pad_only(embedding) ==
    IF Len(embedding) < embedding_dimension
      THEN embedding \o [i \in 1..(embedding_dimension - Len(embedding)) |-> 0]
      ELSE embedding

\* lines 40-46 and 87-91: np.pad with zeros at the end, or a slice
ensure_dimension(embedding) ==
    IF Len(embedding) # embedding_dimension THEN
        IF Len(embedding) < embedding_dimension
          THEN embedding \o [i \in 1..(embedding_dimension - Len(embedding)) |-> 0]
          ELSE SubSeq(embedding, 1, embedding_dimension)
    ELSE embedding

\* lines 28-53; encoded is what self.model.encode did: it raised, or it
\* returned the vector encoded.vec
generate_embedding_vector(text, encoded) ==
    IF is_blank(text) THEN zero_vector
    ELSE IF encoded.raised THEN zero_vector
    ELSE ensure_dimension(encoded.vec)

\* row k of the array that self.model.encode returns for a list of texts:
\* one row per text, all of the same width
encoded_row(k, width) == [j \in 1..width |-> k]

\* lines 55-104; encoded is what self.model.encode did: it raised, or it
\* returned rows of width encoded.width
generate_embeddings_batch(texts, encoded) ==
    LET valid_indices == {i \in 1..Len(texts) : ~is_blank(texts[i])}
        all_zero == [i \in 1..Len(texts) |-> zero_vector]
    IN  IF texts = <<>> THEN <<>>
        ELSE IF valid_indices = {} THEN all_zero
        ELSE IF encoded.raised THEN all_zero
        ELSE [i \in 1..Len(texts) |->
                IF i \in valid_indices
                  THEN ensure_dimension(
                           encoded_row(Cardinality({v \in valid_indices : v <= i}),
                                       encoded.width))
                  ELSE zero_vector]

\* a cosine similarity, kept exact: sign * sqrt(num / den) with num / den in
\* lowest terms
Similarity(sign, num, den) ==
    IF sign = 0 THEN [sign |-> 0, num |-> 0, den |-> 1]
    ELSE [sign |-> sign, num |-> num \div GCD(num, den), den |-> den \div GCD(num, den)]

RECURSIVE dot(_, _)
dot(vec1, vec2) ==
    IF vec1 = <<>> THEN 0 ELSE Head(vec1) * Head(vec2) + dot(Tail(vec1), Tail(vec2))

\* lines 106-127: 0.0 for a zero norm and, through the except clause, for
\* vectors of different lengths
compute_similarity(embedding1, embedding2) ==
    IF Len(embedding1) # Len(embedding2) THEN Similarity(0, 0, 1)
    ELSE LET dot_product == dot(embedding1, embedding2)
             norm1 == dot(embedding1, embedding1)
             norm2 == dot(embedding2, embedding2)
         IN  IF norm1 = 0 \/ norm2 = 0 THEN Similarity(0, 0, 1)
             ELSE Similarity(IF dot_product > 0 THEN 1 ELSE IF dot_product < 0 THEN -1 ELSE 0,
                             dot_product * dot_product, norm1 * norm2)

\* a >= b of two similarities
similarity_ge(a, b) ==
    IF a.sign # b.sign THEN a.sign > b.sign
    ELSE IF a.sign = 0 THEN TRUE
    ELSE IF a.sign = 1 THEN a.num * b.den >= b.num * a.den
    ELSE a.num * b.den <= b.num * a.den

\* the insertion of a sort that puts a pair before the pairs of equal similarity
insert_similarity_before_ties(sorted, pair) ==
    LET before == {i \in 1..Len(sorted) :
                      \A j \in 1..i : ~similarity_ge(pair[2], sorted[j][2])}
        n == Cardinality(before)
    IN  SubSeq(sorted, 1, n) \o <<pair>> \o SubSeq(sorted, n + 1, Len(sorted))

\* list.sort(key=lambda x: x[1], reverse=True), line 142: descending and
\* stable; a pair goes after the pairs that are at least as similar
insert_similarity(sorted, pair) ==
    LET before == {i \in 1..Len(sorted) :
                      \A j \in 1..i : similarity_ge(sorted[j][2], pair[2])}
        n == Cardinality(before)
    IN  SubSeq(sorted, 1, n) \o <<pair>> \o SubSeq(sorted, n + 1, Len(sorted))

RECURSIVE sort_similarities(_)
sort_similarities(similarities) ==
    IF similarities = <<>> THEN <<>>
    ELSE insert_similarity(sort_similarities(SubSeq(similarities, 1, Len(similarities) - 1)),
                           similarities[Len(similarities)])

\* lines 129-144; the indices are enumerate's, from 0
find_most_similar(query_embedding, candidate_embeddings, top_k) ==
    LET similarities ==
            [i \in 1..Len(candidate_embeddings) |->
                <<i - 1, compute_similarity(query_embedding, candidate_embeddings[i])>>]
        sorted == sort_similarities(similarities)
    IN  SubSeq(sorted, 1, IF top_k < Len(sorted) THEN top_k ELSE Len(sorted))

(***************************************************************************)
(* SpecEmbed: the functions of EmbeddingGenerator, each called once        *)
(***************************************************************************)
\* None or "", blank text, and text with and without surrounding blanks
Texts == {<<>>, <<" ", " ">>, <<"a">>, <<" ", "a", "b", " ">>}

\* what self.model.encode returns for one text: any vector of up to
\* embedding_dimension + 1 components
EncodedVectors ==
    {<<>>} \cup UNION {[1..n -> {1, 2}] : n \in 1..(embedding_dimension + 1)}
Encoded ==
    {[raised |-> TRUE, vec |-> <<>>]} \cup {[raised |-> FALSE, vec |-> v] : v \in EncodedVectors}
EncodedBatches ==
    {[raised |-> TRUE, width |-> 0]}
    \cup {[raised |-> FALSE, width |-> w] : w \in 0..(embedding_dimension + 1)}

CandidateVectors ==
    {<<1, 0>>, <<2, 0>>, <<0, 1>>, <<1, 1>>, <<-1, 0>>, <<0, 0>>, <<1>>}
QueryVectors == {<<1, 0>>, <<1, 1>>, <<0, 0>>}

generate_embedding_call ==
    /\ fn = "none"
    /\ \E text \in Texts, encoded \in Encoded :
        /\ fn' = "generate_embedding"
        /\ args' = [text |-> text, encoded |-> encoded]
        /\ ret' = generate_embedding_vector(text, encoded)
        /\ UNCHANGED <<queryVars, ingestVars, simpleVars, searchVars>>

generate_embeddings_batch_call ==
    /\ fn = "none"
    /\ \E texts \in {<<>>} \cup SeqsUpTo(Texts, MaxBatch), encoded \in EncodedBatches :
        /\ fn' = "generate_embeddings_batch"
        /\ args' = [texts |-> texts, encoded |-> encoded]
        /\ ret' = generate_embeddings_batch(texts, encoded)
        /\ UNCHANGED <<queryVars, ingestVars, simpleVars, searchVars>>

find_most_similar_call ==
    /\ fn = "none"
    /\ \E query_embedding \in QueryVectors,
          candidate_embeddings \in {<<>>} \cup SeqsUpTo(CandidateVectors, MaxCandidates),
          top_k \in 0..MaxTopK :
        /\ fn' = "find_most_similar"
        /\ args' = [query_embedding |-> query_embedding,
                    candidate_embeddings |-> candidate_embeddings,
                    top_k |-> top_k]
        /\ ret' = find_most_similar(query_embedding, candidate_embeddings, top_k)
        /\ UNCHANGED <<queryVars, ingestVars, simpleVars, searchVars>>

NextEmbed ==
    generate_embedding_call \/ generate_embeddings_batch_call \/ find_most_similar_call
InitSpecEmbed == IdleQuery /\ IdleIngest /\ IdleSimple /\ IdleSearch /\ IdleCalls
SpecEmbed == InitSpecEmbed /\ [][NextEmbed]_vars

\* C14: every vector returned by generate_embedding, and every element of the
\* list returned by generate_embeddings_batch, has exactly
\* embedding_dimension components.
C14_EmbeddingDimension ==
    /\ fn = "generate_embedding" => Len(ret) = embedding_dimension
    /\ fn = "generate_embeddings_batch" =>
          \A i \in 1..Len(ret) : Len(ret[i]) = embedding_dimension

\* a batch with a blank text and a text, encoded into rows that are too wide
C14_Witness ==
    /\ fn = "generate_embeddings_batch"
    /\ \E i, j \in 1..Len(args.texts) : is_blank(args.texts[i]) /\ ~is_blank(args.texts[j])
    /\ ~args.encoded.raised
    /\ args.encoded.width > embedding_dimension
    /\ Len(ret) = Len(args.texts)

\* C15: find_most_similar returns min(top_k, number of candidates) pairs
\* (index, score), each candidate's own, in non-increasing similarity, pairs
\* of equal similarity in ascending index.
C15_MostSimilar ==
    fn = "find_most_similar" =>
        LET n == Len(args.candidate_embeddings) IN
        /\ Len(ret) = IF args.top_k < n THEN args.top_k ELSE n
        /\ \A i \in 1..Len(ret) :
              /\ ret[i][1] \in 0..(n - 1)
              /\ ret[i][2] = compute_similarity(args.query_embedding,
                                                args.candidate_embeddings[ret[i][1] + 1])
        /\ \A i, j \in 1..Len(ret) :
              i < j => /\ similarity_ge(ret[i][2], ret[j][2])
                       /\ ret[i][2] = ret[j][2] => ret[i][1] < ret[j][1]
        /\ \A i \in 1..Len(ret), c \in 0..(n - 1) :
              (\A j \in 1..Len(ret) : ret[j][1] # c) =>
                  similarity_ge(ret[i][2],
                                compute_similarity(args.query_embedding,
                                                   args.candidate_embeddings[c + 1]))

\* three candidates of which the last two tie above the first, two returned
C15_Witness ==
    /\ fn = "find_most_similar"
    /\ Len(args.candidate_embeddings) = 3 /\ args.top_k = 2
    /\ Len(ret) = 2
    /\ ret[1][1] = 1 /\ ret[2][1] = 2
    /\ ret[1][2] = ret[2][2]
    /\ ret[1][2].sign = 1 /\ ret[1][2].num < ret[1][2].den

(***************************************************************************)
(* ingestion/chunker.py: IntelligentChunker                                *)
(*                                                                         *)
(* A content is a sequence of blocks, the units its source type splits it  *)
(* into (sections under a header, paragraphs, speaker turns); a block is a *)
(* sequence of sentences.  A sentence is [id, tokens]: its position in the *)
(* content and what _count_tokens counts for it.  A speaker marker is a    *)
(* piece of text as well, with id 0 - (number of its block).  The token    *)
(* count of a text is the sum over its pieces.                             *)
(***************************************************************************)
MaxBlocks == 2      \* blocks of one content
MaxSentences == 3   \* sentences of one block

RECURSIVE Flatten(_)
Flatten(seqs) == IF seqs = <<>> THEN <<>> ELSE Head(seqs) \o Flatten(Tail(seqs))

\* the blocks of a content given as the token counts of its sentences
RECURSIVE number_blocks(_, _)
number_blocks(counts, offset) ==
    IF counts = <<>> THEN <<>>
    ELSE <<[j \in 1..Len(Head(counts)) |-> [id |-> offset + j, tokens |-> Head(counts)[j]]]>>
         \o number_blocks(Tail(counts), offset + Len(Head(counts)))
marker(b) == [id |-> 0 - b, tokens |-> 1]

RECURSIVE _count_tokens(_)
_count_tokens(text) ==
    IF text = <<>> THEN 0 ELSE Head(text).tokens + _count_tokens(Tail(text))

_create_chunk(content, index) ==
    [content |-> content, token_count |-> _count_tokens(content), chunk_index |-> index]

\* lines 230-237: the loop over reversed(sentences); budget is what is left
\* of chunk_overlap
RECURSIVE overlap_loop(_, _)
overlap_loop(sentences, budget) ==
    IF sentences = <<>> THEN <<>>
    ELSE LET last == sentences[Len(sentences)] IN
         IF last.tokens <= budget
           THEN overlap_loop(SubSeq(sentences, 1, Len(sentences) - 1),
                             budget - last.tokens)
                \o <<last>>
           ELSE <<>>

\* an overlap that repeats the whole passage
_get_overlap_sentences_whole(sentences, chunk_overlap) == sentences

\* lines 224-239: sentences from the end while they fit in chunk_overlap
_get_overlap_sentences(sentences, chunk_overlap) ==
    overlap_loop(sentences, chunk_overlap)

\* lines 204-208: the remaining sentences become a chunk if they reach
\* min_chunk_size
remainder_chunk(chunk_list, current_chunk, config) ==
    IF current_chunk # <<>> /\ _count_tokens(current_chunk) >= config.min_chunk_size
      THEN Append(chunk_list, _create_chunk(current_chunk, Len(chunk_list)))
      ELSE chunk_list

\* lines 187-208: the loop over the sentences and what follows it
RECURSIVE sentences_loop(_, _, _, _)
sentences_loop(sentences, chunk_list, current_chunk, config) ==
    IF sentences = <<>> THEN remainder_chunk(chunk_list, current_chunk, config)
    ELSE LET sentence == Head(sentences) IN
         IF /\ _count_tokens(current_chunk) + sentence.tokens > config.chunk_size
            /\ current_chunk # <<>>
           THEN sentences_loop(
                    Tail(sentences),
                    Append(chunk_list, _create_chunk(current_chunk, Len(chunk_list))),
                    _get_overlap_sentences(current_chunk, config.chunk_overlap)
                        \o <<sentence>>,
                    config)
           ELSE sentences_loop(Tail(sentences), chunk_list, Append(current_chunk, sentence),
                               config)

\* lines 174-210
_chunk_by_sentences(sentences, config) == sentences_loop(sentences, <<>>, <<>>, config)

\* lines 90-127: every section is chunked on its own
RECURSIVE _chunk_document(_, _)
_chunk_document(sections, config) ==
    IF sections = <<>> THEN <<>>
    ELSE _chunk_by_sentences(Head(sections), config)
         \o _chunk_document(Tail(sections), config)

\* lines 138-159: the loop over the paragraphs and what follows it
RECURSIVE paragraphs_loop(_, _, _, _)
paragraphs_loop(paragraphs, chunk_list, current_chunk, config) ==
    IF paragraphs = <<>> THEN
        IF current_chunk # <<>>
          THEN Append(chunk_list, _create_chunk(current_chunk, Len(chunk_list)))
          ELSE chunk_list
    ELSE LET paragraph == Head(paragraphs)
             test_chunk == current_chunk \o paragraph
         IN  IF _count_tokens(test_chunk) <= config.chunk_size
               THEN paragraphs_loop(Tail(paragraphs), chunk_list, test_chunk, config)
               ELSE LET saved == IF current_chunk # <<>>
                                   THEN Append(chunk_list,
                                               _create_chunk(current_chunk, Len(chunk_list)))
                                   ELSE chunk_list
                    IN  IF _count_tokens(paragraph) > config.chunk_size
                          THEN paragraphs_loop(Tail(paragraphs),
                                               saved \o _chunk_by_sentences(paragraph, config),
                                               <<>>, config)
                          ELSE paragraphs_loop(Tail(paragraphs), saved, paragraph, config)

\* lines 129-161
_chunk_web_content(paragraphs, config) == paragraphs_loop(paragraphs, <<>>, <<>>, config)

\* re.split(speaker_pattern, content), line 58: each speaker turn is a
\* marker followed by its text
RECURSIVE segments_of(_, _)
segments_of(turns, b) ==
    IF turns = <<>> THEN <<>>
    ELSE <<[is_marker |-> TRUE, text |-> <<marker(b)>>],
           [is_marker |-> FALSE, text |-> Head(turns)]>>
         \o segments_of(Tail(turns), b + 1)

\* lines 61-83: the loop over the segments and what follows it
RECURSIVE segments_loop(_, _, _, _)
segments_loop(segments, chunk_list, current_chunk, config) ==
    IF segments = <<>> THEN
        IF current_chunk # <<>>
          THEN Append(chunk_list, _create_chunk(current_chunk, Len(chunk_list)))
          ELSE chunk_list
    ELSE LET segment == Head(segments) IN
         IF segment.text = <<>> THEN
             segments_loop(Tail(segments), chunk_list, current_chunk, config)
         ELSE IF segment.is_marker THEN
             IF current_chunk # <<>> /\ _count_tokens(current_chunk) >= config.min_chunk_size
               THEN segments_loop(Tail(segments),
                                  Append(chunk_list, _create_chunk(current_chunk, Len(chunk_list))),
                                  segment.text, config)
               ELSE segments_loop(Tail(segments), chunk_list, current_chunk \o segment.text,
                                  config)
         ELSE LET grown == current_chunk \o segment.text IN
              IF _count_tokens(grown) >= config.chunk_size
                THEN segments_loop(Tail(segments),
                                   Append(chunk_list, _create_chunk(grown, Len(chunk_list))),
                                   <<>>, config)
                ELSE segments_loop(Tail(segments), chunk_list, grown, config)

\* lines 47-88
_chunk_audio_transcript(content, config) ==
    IF content.markers
      THEN segments_loop(segments_of(content.blocks, 1), <<>>, <<>>, config)
      ELSE _chunk_by_sentences(Flatten(content.blocks), config)

\* lines 24-45 (and 163-172: OCR text and unknown types go by sentences)
chunk_content(content, source_type, config) ==
    IF content.blocks = <<>> THEN <<>>
    ELSE IF source_type = "audio" THEN _chunk_audio_transcript(content, config)
    ELSE IF source_type \in {"pdf", "text"} THEN _chunk_document(content.blocks, config)
    ELSE IF source_type = "web" THEN _chunk_web_content(content.blocks, config)
    ELSE _chunk_by_sentences(Flatten(content.blocks), config)

(***************************************************************************)
(* SpecChunk: chunk_content called once for a content, a source type and a *)
(* configuration                                                           *)
(***************************************************************************)
\* token counts of a sentence: short, and as long as the smaller chunk_size
TokenCounts == {1, 3}
BlockCounts == SeqsUpTo(TokenCounts, MaxSentences)
Contents ==
    {[blocks |-> number_blocks(counts, 0), markers |-> markers] :
        counts \in {<<>>} \cup SeqsUpTo(BlockCounts, MaxBlocks), markers \in BOOLEAN}

\* IntelligentChunker(chunk_size, chunk_overlap, min_chunk_size): the
\* defaults 500, 100, 50 scaled down, and variations
Configs ==
    {[chunk_size |-> c, chunk_overlap |-> o, min_chunk_size |-> m] :
        c \in {3, 4}, o \in {0, 1, 2}, m \in {1, 2}}

chunk_content_call ==
    /\ fn = "none"
    /\ \E content \in Contents, source_type \in SourceType \cup {"other"},
          config \in Configs :
        /\ content.markers => source_type = "audio"
        /\ fn' = "chunk_content"
        /\ args' = [content |-> content, source_type |-> source_type, config |-> config]
        /\ ret' = chunk_content(content, source_type, config)
        /\ UNCHANGED <<queryVars, ingestVars, simpleVars, searchVars>>

NextChunk == chunk_content_call
InitSpecChunk == IdleQuery /\ IdleIngest /\ IdleSimple /\ IdleSearch /\ IdleCalls
SpecChunk == InitSpecChunk /\ [][NextChunk]_vars

\* C18: every passage has content, and every passage but the last of the
\* document has at least min_chunk_size tokens.
C18_NoSmallPassage ==
    fn = "chunk_content" =>
        \A i \in 1..Len(ret) :
            /\ ret[i].content # <<>>
            /\ i < Len(ret) => ret[i].token_count >= args.config.min_chunk_size

\* the text of the content in order: its sentences, and its speaker markers
\* when the source type splits on them
TextOf(content, source_type) ==
    IF content.markers /\ source_type = "audio"
      THEN Flatten([i \in 1..Len(content.blocks) |-> <<marker(i)>> \o content.blocks[i]])
      ELSE Flatten(content.blocks)

\* passage i without its leading overlap: without the pieces that passage
\* i - 1 already holds
WithoutOverlap(passages, i) ==
    IF i = 1 THEN passages[i].content
    ELSE SelectSeq(passages[i].content,
                   LAMBDA piece : piece \notin Range(passages[i - 1].content))

\* C19: the passages, each without its leading overlap, concatenated in
\* order, are the content: nothing is lost and nothing is repeated.
C19_Reconstruction ==
    fn = "chunk_content" =>
        Flatten([i \in 1..Len(ret) |-> WithoutOverlap(ret, i)])
            = TextOf(args.content, args.source_type)

\* the calls whose result is that of one _chunk_by_sentences call
SentenceChunked ==
    \/ args.source_type \in {"image", "other"}
    \/ args.source_type = "audio" /\ ~args.content.markers
    \/ args.source_type \in {"pdf", "text"} /\ Len(args.content.blocks) = 1

\* the number of leading sentences of passage i + 1 that passage i holds
OverlapLength(passages, i) ==
    LET prev == passages[i].content
        next == passages[i + 1].content
    IN  Cardinality({j \in 1..Len(next) : next[j].id <= prev[Len(prev)].id})

\* C24: in sentence-based chunking every passage after the first starts with
\* a suffix of the passage before it, followed by the sentence that comes
\* after that passage; the suffix has at most chunk_overlap tokens, and it
\* is the whole passage or one more sentence would exceed chunk_overlap.
C24_OverlapSeed ==
    (fn = "chunk_content" /\ SentenceChunked) =>
        \A i \in 1..(Len(ret) - 1) :
            LET prev == ret[i].content
                next == ret[i + 1].content
                k == OverlapLength(ret, i)
            IN  /\ k <= Len(prev)
                /\ k < Len(next)
                /\ SubSeq(next, 1, k) = SubSeq(prev, Len(prev) - k + 1, Len(prev))
                /\ next[k + 1].id = prev[Len(prev)].id + 1
                /\ _count_tokens(SubSeq(next, 1, k)) <= args.config.chunk_overlap
                /\ k < Len(prev)
                     => _count_tokens(SubSeq(prev, Len(prev) - k, Len(prev)))
                          > args.config.chunk_overlap

\* C24 witness: a passage seeded with two sentences of the passage before
\* it, which holds more sentences than these two.
C24_Witness ==
    /\ fn = "chunk_content"
    /\ SentenceChunked
    /\ \E i \in 1..(Len(ret) - 1) :
         /\ OverlapLength(ret, i) = 2
         /\ Len(ret[i].content) > 2

\* C30: the chunk_index of the i-th passage (counted from 0) that
\* chunk_content returns is i.
C30_ChunkIndexIsPosition ==
    fn = "chunk_content" =>
        \A i \in 1..Len(ret) : ret[i].chunk_index = i - 1

(***************************************************************************)
(* SpecRepeat: HybridSearchEngine.search called twice with the same        *)
(* arguments against the same store and the same embedding backend.  The   *)
(* similarity of every chunk to the query embedding and its ts_rank are    *)
(* the same in both calls; the clock reading and the order in which the    *)
(* database returns rows of equal score are each call's own.               *)
(***************************************************************************)
\* ORDER BY score DESC over the chunks S: every order SQL allows, rows of
\* equal score in any order
SortedBy(score, S) ==
    {o \in Orders(S) : \A i \in 1..(Len(o) - 1) : score[o[i]] >= score[o[i + 1]]}

\* similarity of each chunk to the query embedding; ts_rank of each chunk
\* for the query, 0 for a chunk the tsquery does not match
Similarities == [ChunkIds -> 1..2]
TsRanks == [ChunkIds -> 0..1]
Matching(ts_rank) == {c \in ChunkIds : ts_rank[c] > 0}

\* datetime.now() of the second call: the same reading, or a day later
LaterNows == {Now, Now + MinutesPerDay}

\* lines 21-52: search as one call
search(query, limit, source_types, date_range, tags, now, order, ranked) ==
    LET effective == date_range_at(query, date_range, now)
        sem == _semantic_search(order, limit * 2, source_types, effective, tags, FALSE)
        kw == _keyword_search(ranked, limit * 2, source_types, effective, tags, FALSE)
    IN  IF sem.raised \/ kw.raised
          THEN [now |-> now, raised |-> TRUE, results |-> <<>>]
          ELSE [now |-> now, raised |-> FALSE,
                results |-> _reciprocal_rank_fusion(sem.rows, kw.rows, limit)]

search_call ==
    /\ fn = "none"
    /\ \E query \in Queries, limit \in Limits, source_types \in SourceFilters,
          date_range \in DateFilters, tags \in TagFilters,
          similarity \in Similarities, ts_rank \in TsRanks :
        \E order \in SortedBy(similarity, ChunkIds),
           ranked \in SortedBy(ts_rank, Matching(ts_rank)) :
            /\ fn' = "search"
            /\ args' = [query |-> query, limit |-> limit,
                        source_types |-> source_types, date_range |-> date_range,
                        tags |-> tags, similarity |-> similarity,
                        ts_rank |-> ts_rank]
            /\ ret' = <<search(query, limit, source_types, date_range, tags, Now,
                               order, ranked)>>
            /\ UNCHANGED <<queryVars, ingestVars, simpleVars, searchVars>>

search_again ==
    /\ fn = "search"
    /\ \E now \in LaterNows, order \in SortedBy(args.similarity, ChunkIds),
          ranked \in SortedBy(args.ts_rank, Matching(args.ts_rank)) :
        /\ fn' = "search_again"
        /\ ret' = Append(ret, search(args.query, args.limit, args.source_types,
                                     args.date_range, args.tags, now, order, ranked))
        /\ UNCHANGED <<queryVars, ingestVars, simpleVars, searchVars, args>>

NextRepeat == search_call \/ search_again
InitSpecRepeat == IdleQuery /\ IdleIngest /\ IdleSimple /\ IdleSearch /\ IdleCalls
SpecRepeat == InitSpecRepeat /\ [][NextRepeat]_vars

\* C21: the second of two search calls with the same arguments on the same
\* store returns what the first returned: the same chunks in the same order.
C21_Deterministic ==
    fn = "search_again" =>
        /\ ret[2].raised = ret[1].raised
        /\ ret[2].results = ret[1].results

(***************************************************************************)
(* api/query.py submit_query against table conversations                   *)
(* (storage/models.py Conversation: id is the primary key)                 *)
(***************************************************************************)
MaxConversations == 3   \* rows table conversations can hold

ConversationIds == 1..MaxConversations
NoConversationId == 0   \* request.conversation_id is None
ConversationQueries == {"first question", "follow-up"}

\* uuid.uuid4(): an id no stored conversation has
uuid4 == CHOOSE id \in ConversationIds : \A c \in conversations : c.id # id

\* lines 43-56: the stored exchanges with the request's conversation_id
conversation_history(conversation_id) ==
    IF conversation_id = NoConversationId THEN {}
    ELSE {c \in conversations : c.id = conversation_id}

\* lines 80-81: INSERT of a row whose primary key is already stored raises
insert_conflicts(id) == \E c \in conversations : c.id = id

\* lines 30-104.  backend_ok = FALSE: the search or the language model
\* raises.  Every exception becomes HTTP 500 and the session is closed
\* without a commit.
submit_query(conversation_id, query, backend_ok) ==
    LET history == conversation_history(conversation_id)
        new_id == IF conversation_id # NoConversationId THEN conversation_id ELSE uuid4
        failed == ~backend_ok \/ insert_conflicts(new_id)
    IN  /\ conversation_id = NoConversationId
             => Cardinality(conversations) < MaxConversations
        /\ fn' = "submit_query"
        /\ args' = [conversation_id |-> conversation_id, query |-> query,
                    backend_ok |-> backend_ok]
        /\ conversations' = IF failed THEN conversations
                            ELSE conversations \cup {[id |-> new_id, query |-> query]}
        /\ ret' = IF failed
                    THEN [status |-> 500, conversation_id |-> NoConversationId,
                          history |-> {}]
                    ELSE [status |-> 200, conversation_id |-> new_id,
                          history |-> {c.query : c \in history}]
        /\ UNCHANGED <<ingestVars, simpleVars, searchVars>>

NextQuery ==
    \E conversation_id \in ConversationIds \cup {NoConversationId},
       query \in ConversationQueries, backend_ok \in BOOLEAN :
        submit_query(conversation_id, query, backend_ok)

InitSpecQuery == IdleIngest /\ IdleSimple /\ IdleSearch /\ IdleCalls /\ IdleQuery
SpecQuery == InitSpecQuery /\ [][NextQuery]_vars

\* C28: a submit_query whose conversation_id is that of a stored
\* conversation, and whose search and language model work, answers 200 with
\* the stored exchange as history; afterwards the stored exchange is still
\* there and the new one is recorded.
C28_FollowUpSucceeds ==
    [][(/\ fn' = "submit_query"
        /\ args'.backend_ok
        /\ \E c \in conversations : c.id = args'.conversation_id)
          => /\ ret'.status = 200
             /\ ret'.history # {}
             /\ conversations \subseteq conversations'
             /\ conversations' # conversations]_vars

====
